---- MODULE Spec2Model ----
(***************************************************************************)
(* Verification model of the arkitect task-mesh orchestrator.              *)
(*                                                                         *)
(*   SpecMesh     : orchestrator_core/src/graph.rs, the TaskMesh DAG       *)
(*                  (add_task, add_dependency).                            *)
(*   SpecReady    : the same mesh with task statuses changing, for the     *)
(*                  readiness predicate (can_execute_task).                *)
(*   SpecOrch     : orchestrator_core/src/core.rs, OrchestratorCore:       *)
(*                  add_task, execute_task, the execution loop, stop.      *)
(*   SpecOrchFair : SpecOrch with a layer that always succeeds and fair    *)
(*                  scheduling of the loop and of calls in progress.       *)
(*   SpecExec     : task_mesh_core/src/executor.rs, TaskExecutor: the      *)
(*                  command loop, the worker pool, the state store.        *)
(*   SpecBreaker  : orchestrator_core/src/errors.rs, CircuitBreaker:       *)
(*                  concurrent calls, the clock.                           *)
(*   SpecRetry    : orchestrator_core/src/errors.rs, RetryManager:         *)
(*                  retry_with_backoff over RetryInfo.                     *)
(*   SpecRetryFair: SpecRetry with an operation that always returns.       *)
(*   SpecCheckpoint: orchestrator_core/src/backup.rs, BackupSystem:        *)
(*                  on_task_completed and create_checkpoint.               *)
(*   SpecBackup   : the whole BackupSystem: checkpoints, snapshots,        *)
(*                  retention, restore on boot.                            *)
(*   SpecCore     : task_mesh_core/src/lib.rs, TaskMeshCore: start and     *)
(*                  shutdown over the executor of SpecExec.                *)
(*   SpecRegistry : task_mesh_core/src/task_registry.rs, TaskRegistry:     *)
(*                  register_task, unregister_task.                        *)
(*   SpecScheduler: task_mesh_core/src/scheduler.rs, Scheduler:            *)
(*                  schedule_task and get_next_task.                       *)
(*   SpecMemStore : task_mesh_core/src/state_store.rs, MemoryStateStore:   *)
(*                  tasks, statuses and checkpoints.                       *)
(*                                                                         *)
(* Identifiers (TaskId, EdgeId) are arguments of the operations: the       *)
(* fields TaskNode.id and DependencyEdge.id are public, so the caller      *)
(* decides them and the model draws them from small sets.                  *)
(***************************************************************************)
EXTENDS Integers, Sequences, FiniteSets, TLC

VARIABLES
    mesh,             \* TaskMesh: the graph and its two indexes
    last,             \* SpecMesh: the call just made on the mesh and its result
    orch_status,      \* OrchestratorCore.status
    layers,           \* LayerManager.layers: the registered execution layers
    execution_queue,  \* OrchestratorCore.execution_queue
    running_tasks,    \* OrchestratorCore.running_tasks (ids with a join handle)
    clients,          \* callers of add_task / execute_task and where each one is
    spawned,          \* executions spawned by the execution loop: how many per
                      \* task id are looking the task up, how many are on the layer
    task_status,      \* StateStore: the stored status of each task
    command_channel,  \* TaskExecutor.command_tx / command_rx: commands in flight
    executor_running, \* TaskExecutor.running_tasks: the ids that have an entry
    available_workers,\* WorkerPool.available_workers
    permits,          \* TaskExecutor.concurrency_semaphore: permits available
    command_loop,     \* the command loop: where it is, the task it executes,
                      \* that execution's cancel token and its result
    execute_calls,    \* ids with a TaskExecutor::execute_task call between its
                      \* running_tasks check and its status write
    cancel_during_execution,
                      \* observation: cancel_task(id) was called while the
                      \* command loop was executing task id
    attempts,         \* observation: how many executions handle_execute_task
                      \* has begun for each task (counted up to 2)
    now,              \* Utc::now(): the clock
    cb_state,         \* CircuitBreaker.state
    cb_failed_calls,  \* CircuitBreaker.metrics.failed_calls
    calls,            \* callers of CircuitBreaker::call: where each one is, the
                      \* state its call saw (current_state), what it returned
    consecutive_failures,
                      \* observation: failures recorded by the breaker since
                      \* the last success it recorded
    retry,            \* one RetryManager::retry_with_backoff call: its
                      \* RetryInfo, where it is, the operation's outcomes
    completed_tasks_count,
                      \* BackupSystem.completed_tasks_count
    checkpoints,      \* SQLite table checkpoints, rows in insertion order
    snapshot_metadata,\* SQLite table snapshot_metadata, rows in insertion order
    minio,            \* the objects in the MinIO bucket
    last_snapshot,    \* BackupSystem.last_snapshot (0 is None)
    backup_calls,     \* callers of BackupSystem: the call each one is in,
                      \* where it is, its locals, what its last call returned
    refused_checkpoints,
                      \* observation: the task_count of every checkpoint whose
                      \* insert the database refused
    retention_dropped,\* observation: the minio_key of every snapshot that
                      \* cleanup_old_snapshots dropped
    snapshots_created,\* observation: how many create_snapshot calls returned Ok
    stop_call,        \* OrchestratorCore::stop: where the call is
    core_shutdown,    \* TaskMeshCore::shutdown: where the call is, what it returned
    checkpoint_engine,\* CheckpointEngine: whether it runs, how many checkpoints
                      \* it created
    registry,         \* TaskRegistry: the task map, its indexes and
                      \* metadata.total_tasks
    registry_result,  \* what the last register_task / unregister_task call returned
    schedule_queue,   \* Scheduler.schedule_queue: how many times each item is
                      \* queued
    dependency_graph, \* Scheduler.dependency_graph: its edges (dependency,
                      \* task)
    next_task,        \* what the last get_next_task call returned
    store_tasks,      \* MemoryStateStore.tasks
    store_checkpoints,\* MemoryStateStore.checkpoints: the serialized data under
                      \* each checkpoint id
    store_call        \* the last call on the MemoryStateStore and what it
                      \* returned

meshVars == <<mesh, last>>

orchVars == <<orch_status, layers, execution_queue, running_tasks, clients, spawned>>

execVars == <<task_status, command_channel, executor_running, available_workers,
              permits, command_loop, execute_calls, cancel_during_execution, attempts>>

errVars == <<now, cb_state, cb_failed_calls, calls, consecutive_failures, retry>>

backupVars == <<completed_tasks_count, checkpoints, snapshot_metadata, minio,
                last_snapshot, backup_calls, refused_checkpoints,
                retention_dropped, snapshots_created>>

stopVars == <<stop_call>>

registryVars == <<registry, registry_result>>

coreVars == <<core_shutdown, checkpoint_engine>>

schedVars == <<schedule_queue, dependency_graph, next_task>>

memVars == <<store_tasks, store_checkpoints, store_call>>

vars == <<mesh, last, orch_status, layers, execution_queue, running_tasks, clients,
          spawned, task_status, command_channel, executor_running, available_workers,
          permits, command_loop, execute_calls, cancel_during_execution, attempts,
          now, cb_state, cb_failed_calls, calls, consecutive_failures, retry,
          completed_tasks_count, checkpoints, snapshot_metadata, minio,
          last_snapshot, backup_calls, refused_checkpoints, retention_dropped,
          snapshots_created, stop_call, core_shutdown, checkpoint_engine,
          registry, registry_result,
          schedule_queue, dependency_graph, next_task,
          store_tasks, store_checkpoints, store_call>>

(***************************************************************************)
(* Bounds of the model.                                                    *)
(***************************************************************************)
MaxNodes == 3
MaxEdges == 2
ReadyMaxNodes == 2
ReadyMaxEdges == 1
OrchMaxNodes == 2
OrchMaxEdges == 1
NumClients == 2
MaxInFlight == 1
MaxWorkers == 1
MaxCommands == 2
NumCallers == 2
MaxTime == 4
MaxFailedCalls == 3
FailureThreshold == 2
TimeoutDuration == 1
MaxRetryAttempts == 3
OperationTimeStep == 100
NumBackupCallers == 2
MaxCompleted == 5
MaxStamps == 3
TasksPerCheckpoint == 2
MaxSnapshots == 1
NumRegTasks == 2
MaxDependencies == 2
MaxQueued == 3

\* The task ids, edge ids and dependency types callers pass in.
TaskIds == {1, 2, 3}
EdgeIds == {1, 2}
MeshKinds == {"Hard", "Soft"}
OrchTaskIds == {1, 2}
OrchEdgeIds == {1}
OrchKinds == {"Hard", "Soft"}
ExecTaskIds == 1..(MaxWorkers + 1)

(***************************************************************************)
(* graph.rs: enums.                                                        *)
(***************************************************************************)
TaskStatus == {"Pending", "Waiting", "Running", "Completed", "Failed",
               "Cancelled", "Paused"}

DependencyType == {"Hard", "Soft", "Resource", "Data"}

PriorityMedium == 2

(***************************************************************************)
(* Small map helpers (HashMap insert / remove).                            *)
(***************************************************************************)
EmptyMap == [k \in {} |-> 0]

MapInsert(f, k, v) == [x \in (DOMAIN f) \cup {k} |-> IF x = k THEN v ELSE f[x]]

MapRemove(f, k) == [x \in (DOMAIN f) \ {k} |-> f[x]]

(***************************************************************************)
(* TaskNode::new: status Pending, priority Medium.                         *)
(***************************************************************************)
TaskNodeNew(id) == [id |-> id, status |-> "Pending", priority |-> PriorityMedium]

\* TaskNode::can_execute
CanExecute(task) == task.status \in {"Pending", "Waiting"}

\* TaskNode::is_complete
IsComplete(task) == task.status \in {"Completed", "Failed", "Cancelled"}

\* DependencyEdge::new; the graph stores the weight together with the two
\* endpoints (node indices) petgraph keeps for the edge.
DependencyEdgeNew(id, source, target, kind) ==
    [id |-> id, source |-> source, target |-> target, dependency_type |-> kind]

(***************************************************************************)
(* TaskMesh: graph (nodes, edges), task_index, edge_index.                 *)
(***************************************************************************)
TaskMeshNew ==
    [nodes |-> <<>>, edges |-> <<>>, task_index |-> EmptyMap, edge_index |-> EmptyMap]

\* TaskMesh::add_task: a new node is always appended; task_index is rebound.
MeshAddTask(m, task) ==
    [m EXCEPT !.nodes = Append(@, task),
              !.task_index = MapInsert(@, task.id, Len(m.nodes) + 1)]

\* petgraph Graph::add_edge: the edge gets the next edge index.
GraphAddEdge(edges, a, b, weight) ==
    Append(edges, [from |-> a, to |-> b, weight |-> weight])

\* Mutation of remove_edge: the tentative edge is left in the graph.
GraphRemoveEdgeForgotten(edges, e) == edges

\* petgraph Graph::remove_edge: swap_remove, the last edge takes the freed index.
GraphRemoveEdge(edges, e) ==
    IF e \notin 1..Len(edges) THEN edges
    ELSE [i \in 1..(Len(edges) - 1) |-> IF i = e THEN edges[Len(edges)] ELSE edges[i]]

\* Node indices reachable from node a by one or more edges.
RECURSIVE ReachFrom(_, _, _)
ReachFrom(edges, frontier, seen) ==
    LET next == {edges[i].to : i \in {j \in 1..Len(edges) : edges[j].from \in frontier}}
        new == next \ seen
    IN IF new = {} THEN seen ELSE ReachFrom(edges, new, seen \cup new)

Successors(edges, a) == ReachFrom(edges, {a}, {})

\* petgraph::algo::is_cyclic_directed: some node reaches itself (a self-loop
\* is a back edge of the depth-first search).
IsCyclicDirected(n, edges) == \E a \in 1..n : a \in Successors(edges, a)

\* TaskMesh::add_dependency: lookups, tentative insert, cycle check, rollback.
MeshAddDependency(m, edge) ==
    IF edge.source \notin DOMAIN m.task_index
    THEN [mesh |-> m, tag |-> "TaskNotFound", val |-> edge.source]
    ELSE IF edge.target \notin DOMAIN m.task_index
    THEN [mesh |-> m, tag |-> "TaskNotFound", val |-> edge.target]
    ELSE LET source_idx == m.task_index[edge.source]
             target_idx == m.task_index[edge.target]
             edge_index == Len(m.edges) + 1
             inserted == [m EXCEPT !.edges = GraphAddEdge(@, source_idx, target_idx, edge),
                                   !.edge_index = MapInsert(@, edge.id, edge_index)]
         IN IF ~IsCyclicDirected(Len(inserted.nodes), inserted.edges)
            THEN [mesh |-> inserted, tag |-> "Ok", val |-> edge.id]
            ELSE [mesh |-> [inserted EXCEPT !.edges = GraphRemoveEdge(@, edge_index),
                                            !.edge_index = MapRemove(@, edge.id)],
                  tag |-> "CyclicDependency", val |-> 0]

\* TaskMesh::get_task
MeshHasTask(m, id) == id \in DOMAIN m.task_index

MeshGetTask(m, id) == m.nodes[m.task_index[id]]

\* TaskMesh::get_task_mut + TaskNode::update_status
MeshUpdateStatus(m, id, status) ==
    IF MeshHasTask(m, id)
    THEN [m EXCEPT !.nodes[m.task_index[id]].status = status]
    ELSE m

\* TaskMesh::get_dependencies: the nodes at the source of an incoming edge,
\* whatever the edge's dependency_type.
MeshGetDependencies(m, id) ==
    {m.edges[i].from : i \in {j \in 1..Len(m.edges) : m.edges[j].to = m.task_index[id]}}

\* TaskMesh::get_dependents: petgraph walks the outgoing edges of the node from
\* the most recently added to the oldest, one neighbour per edge.
RECURSIVE OutgoingFrom(_, _, _)
OutgoingFrom(edges, a, k) ==
    IF k = 0 THEN <<>>
    ELSE IF edges[k].from = a THEN <<edges[k].to>> \o OutgoingFrom(edges, a, k - 1)
    ELSE OutgoingFrom(edges, a, k - 1)

MeshGetDependents(m, id) == OutgoingFrom(m.edges, m.task_index[id], Len(m.edges))

\* TaskMesh::can_execute_task (for a task the mesh knows)
MeshCanExecuteTask(m, id) ==
    /\ MeshHasTask(m, id)
    /\ CanExecute(MeshGetTask(m, id))
    /\ \A dep \in MeshGetDependencies(m, id) : IsComplete(m.nodes[dep])

\* Stable sort of node indices by descending priority (Vec::sort_by).
RECURSIVE SortByPriority(_, _)
SortByPriority(m, s) ==
    IF Len(s) <= 1 THEN s
    ELSE LET rest == SortByPriority(m, Tail(s))
             p == m.nodes[Head(s)].priority
             before == SelectSeq(rest, LAMBDA x : m.nodes[x].priority > p)
             after == SelectSeq(rest, LAMBDA x : m.nodes[x].priority <= p)
         IN before \o <<Head(s)>> \o after

\* TaskMesh::get_ready_tasks: every node whose id passes can_execute_task,
\* then sorted by priority.
MeshGetReadyTasks(m) ==
    SortByPriority(m, SelectSeq([i \in 1..Len(m.nodes) |-> i],
                                LAMBDA i : MeshCanExecuteTask(m, m.nodes[i].id)))

(***************************************************************************)
(* SpecMesh: the structure of a TaskMesh under arbitrary add_task and      *)
(* add_dependency calls.  `last` records the call just made and its        *)
(* result.                                                                 *)
(***************************************************************************)
Call(op, tag) == [op |-> op, tag |-> tag]

Clients == 1..NumClients

Idle == [pc |-> "idle", id |-> 0]

NoneSpawned == [id \in TaskIds |-> [lookup |-> 0, run |-> 0]]

\* WorkerPool::new: worker indexes 0 .. max_workers-1, pushed in that order.
WorkerPoolNew(max_workers) == [i \in 1..max_workers |-> i - 1]

\* The command loop when it is not inside handle_execute_task.
LoopIdle(pc) == [pc |-> pc, task_id |-> 0, token |-> "none", result |-> "none"]

\* TaskExecutor::with_config over an empty state store: no command sent, no
\* task running, every worker available, max_workers permits, the command
\* loop not started.
InitExecIdle ==
    /\ task_status = [id \in ExecTaskIds |-> "Pending"]
    /\ command_channel = <<>>
    /\ executor_running = {}
    /\ available_workers = WorkerPoolNew(MaxWorkers)
    /\ permits = MaxWorkers
    /\ command_loop = LoopIdle("unstarted")
    /\ execute_calls = {}
    /\ cancel_during_execution = FALSE
    /\ attempts = [id \in ExecTaskIds |-> 0]

\* The callers of CircuitBreaker::call.
Callers == 1..NumCallers

\* CircuitBreakerState::Closed; the fields of the other variants are unused.
Closed ==
    [kind |-> "Closed", opened_at |-> 0, failure_count |-> 0,
     test_request_sent |-> FALSE]

\* CircuitBreakerState::Open { opened_at, failure_count }
Open(opened_at, failure_count) ==
    [kind |-> "Open", opened_at |-> opened_at, failure_count |-> failure_count,
     test_request_sent |-> FALSE]

\* CircuitBreakerState::HalfOpen { opened_at, test_request_sent }
HalfOpen(opened_at, test_request_sent) ==
    [kind |-> "HalfOpen", opened_at |-> opened_at, failure_count |-> 0,
     test_request_sent |-> test_request_sent]

\* A caller that is not inside CircuitBreaker::call; result is what its
\* latest call returned.
CallerIdle(result) == [pc |-> "idle", current_state |-> "none", result |-> result]

\* No retry_with_backoff call has been made.
RetryIdle ==
    [pc |-> "idle", max_attempts |-> 0, outcomes |-> <<>>, attempt |-> 0,
     backoff_duration |-> 0, next_retry_at |-> 0, invocations |-> 0,
     result |-> "none"]

\* CircuitBreaker::new (state Closed, default metrics) with no call made, and
\* no retry_with_backoff call made.
InitErrIdle ==
    /\ now = 0
    /\ cb_state = Closed
    /\ cb_failed_calls = 0
    /\ calls = [c \in Callers |-> CallerIdle("none")]
    /\ consecutive_failures = 0
    /\ retry = RetryIdle

\* The callers of BackupSystem.
BackupCallers == 1..NumBackupCallers

\* Option::None for a LocalCheckpoint: no checkpoint has timestamp 0.
NoCheckpoint == [timestamp |-> 0, task_count |-> 0, last_completed_task |-> 0]

\* Option::None for a TaskGraphSnapshot: no snapshot has timestamp 0.
NoSnapshot == [timestamp |-> 0, task_graph |-> TaskMeshNew]

\* What a caller that has made no call yet holds as its last result.
NoResult == [tag |-> "none", snapshot |-> NoSnapshot, checkpoint |-> NoCheckpoint]

\* A caller that is not inside a call of BackupSystem.
BackupIdle(result) ==
    [pc |-> "idle", op |-> "none", timestamp |-> 0, task_count |-> 0,
     trigger |-> 0, task_graph |-> TaskMeshNew, snapshot |-> NoSnapshot,
     result |-> result]

\* BackupSystem::new over empty stores: the counter 0, last_snapshot None.
InitBackupIdle ==
    /\ completed_tasks_count = 0
    /\ checkpoints = <<>>
    /\ snapshot_metadata = <<>>
    /\ minio = {}
    /\ last_snapshot = 0
    /\ backup_calls = [c \in BackupCallers |-> BackupIdle(NoResult)]
    /\ refused_checkpoints = {}
    /\ retention_dropped = {}
    /\ snapshots_created = 0

InitStopIdle ==
    /\ stop_call = "idle"

InitCoreIdle ==
    /\ core_shutdown = "idle"
    /\ checkpoint_engine = [running |-> FALSE, checkpoints |-> 0]

\* TaskRegistry::new: every map is empty.
RegistryNew ==
    [tasks |-> EmptyMap, name_index |-> EmptyMap, tag_index |-> EmptyMap,
     priority_index |-> EmptyMap, dependency_index |-> EmptyMap,
     reverse_dependency_index |-> EmptyMap, total_tasks |-> 0]

\* What a call on the registry returned: Ok, TaskNotFound(id) or
\* CircularDependency ("none" before any call).
RegistryResult(op, tag, id) == [op |-> op, tag |-> tag, id |-> id]

NoRegistryCall == RegistryResult("none", "none", 0)

InitRegistryIdle ==
    /\ registry = RegistryNew
    /\ registry_result = NoRegistryCall

\* ResourceAllocation::default, in cores and in GiB.
DefaultCpuCores == 1
DefaultMemoryBytes == 1

ResourceAllocationDefault ==
    [cpu_cores |-> DefaultCpuCores, memory_bytes |-> DefaultMemoryBytes]

\* The priorities of the tasks handed to the scheduler (Priority is u8).
SchedPriorities == {20, 80}

\* ScheduleItem: estimate_execution always answers with the default resource
\* requirements; estimated_duration and deadline take no part in the order of
\* the heap nor in get_next_task and are left out.
ScheduleItems ==
    [task_id : ExecTaskIds, priority_score : SchedPriorities,
     resource_requirements : {ResourceAllocationDefault}]

\* Scheduler::new: an empty heap.  The heap is kept as the number of times
\* each item is in it (schedule_task pushes without looking for the id).
SchedulerNew == [item \in ScheduleItems |-> 0]

NoScheduleItem ==
    [task_id |-> 0, priority_score |-> 0,
     resource_requirements |-> ResourceAllocationDefault]

\* Option<TaskId> returned by get_next_task, with the item it was popped as
\* and the available_resources the call was given.
NextTask(tag, item, available_resources) ==
    [tag |-> tag, item |-> item, available_resources |-> available_resources]

NoNextTask == NextTask("none", NoScheduleItem, ResourceAllocationDefault)

InitSchedIdle ==
    /\ schedule_queue = SchedulerNew
    /\ dependency_graph = {}
    /\ next_task = NoNextTask

\* A call on the MemoryStateStore and what it returned: Ok, Internal or
\* CheckpointNotFound ("none" before any call).
StoreCall(op, task_id, checkpoint_id, tag) ==
    [op |-> op, task_id |-> task_id, checkpoint_id |-> checkpoint_id, tag |-> tag]

NoStoreCall == StoreCall("none", 0, "", "none")

InitMemIdle ==
    /\ store_tasks = EmptyMap
    /\ store_checkpoints = EmptyMap
    /\ store_call = NoStoreCall

InitOrchIdle ==
    /\ InitExecIdle
    /\ InitErrIdle
    /\ InitBackupIdle
    /\ InitStopIdle
    /\ InitCoreIdle
    /\ InitRegistryIdle
    /\ InitSchedIdle
    /\ InitMemIdle
    /\ orch_status = "Initializing"
    /\ layers = {}
    /\ execution_queue = <<>>
    /\ running_tasks = {}
    /\ clients = [c \in Clients |-> Idle]
    /\ spawned = NoneSpawned

InitMesh ==
    /\ mesh = TaskMeshNew
    /\ last = Call("new", "Ok")
    /\ InitOrchIdle

AddTask(maxNodes, id) ==
    /\ Len(mesh.nodes) < maxNodes
    /\ mesh' = MeshAddTask(mesh, TaskNodeNew(id))
    /\ last' = Call("add_task", "Ok")
    /\ UNCHANGED <<orchVars, execVars, errVars, backupVars, stopVars, registryVars, coreVars, schedVars, memVars>>

AddDependency(maxEdges, eid, source, target, kind) ==
    LET r == MeshAddDependency(mesh, DependencyEdgeNew(eid, source, target, kind))
    IN /\ Len(r.mesh.edges) <= maxEdges
       /\ mesh' = r.mesh
       /\ last' = Call("add_dependency", r.tag)
       /\ UNCHANGED <<orchVars, execVars, errVars, backupVars, stopVars, registryVars, coreVars, schedVars, memVars>>

UpdateStatus(id, status) ==
    /\ MeshHasTask(mesh, id)
    /\ mesh' = MeshUpdateStatus(mesh, id, status)
    /\ last' = Call("update_status", "Ok")
    /\ UNCHANGED <<orchVars, execVars, errVars, backupVars, stopVars, registryVars, coreVars, schedVars, memVars>>

NextMesh ==
    \/ \E id \in TaskIds : AddTask(MaxNodes, id)
    \/ \E eid \in EdgeIds, s \in TaskIds, t \in TaskIds, k \in MeshKinds :
          AddDependency(MaxEdges, eid, s, t, k)

SpecMesh == InitMesh /\ [][NextMesh]_vars

(***************************************************************************)
(* SpecReady: a TaskMesh whose task statuses also change (update_status),  *)
(* for the readiness predicate.                                            *)
(***************************************************************************)
NextReady ==
    \/ \E id \in TaskIds : AddTask(ReadyMaxNodes, id)
    \/ \E eid \in EdgeIds, s \in TaskIds, t \in TaskIds, k \in DependencyType :
          AddDependency(ReadyMaxEdges, eid, s, t, k)
    \/ \E id \in TaskIds, st \in TaskStatus : UpdateStatus(id, st)

SpecReady == InitMesh /\ [][NextReady]_vars

(***************************************************************************)
(* SpecOrch: OrchestratorCore (core.rs) over its TaskMesh.                 *)
(*                                                                         *)
(* Each client is a caller of the asynchronous add_task or execute_task;   *)
(* a call advances one lock acquisition (or one await) at a time, so calls *)
(* interleave with each other, with the execution loop and with the        *)
(* executions the loop spawns.  Dependencies enter the mesh through        *)
(* TaskMesh::add_dependency.  `layers` is what the LayerManager holds:     *)
(* nothing (as OrchestratorCore::new builds it) or the Local layer         *)
(* (LayerManager::add_layer).  The outcome of ExecutionLayerTrait::        *)
(* execute_task is Ok or Err.                                              *)
(***************************************************************************)
InitOrch ==
    /\ InitExecIdle
    /\ InitErrIdle
    /\ InitBackupIdle
    /\ InitStopIdle
    /\ InitCoreIdle
    /\ InitRegistryIdle
    /\ InitSchedIdle
    /\ InitMemIdle
    /\ mesh = TaskMeshNew
    /\ last = Call("new", "Ok")
    /\ orch_status = "Initializing"
    /\ layers \in {{}, {"Local"}}
    /\ execution_queue = <<>>
    /\ running_tasks = {}
    /\ clients = [c \in Clients |-> Idle]
    /\ spawned = NoneSpawned

At(c, pc) == clients[c].pc = pc

Goto(c, pc) == clients' = [clients EXCEPT ![c].pc = pc]

Return(c) == clients' = [clients EXCEPT ![c] = Idle]

\* OrchestratorCore::start: status Running, the execution loop is spawned.
OrchStart ==
    /\ orch_status = "Initializing"
    /\ orch_status' = "Running"
    /\ UNCHANGED <<execVars, errVars, backupVars, stopVars, registryVars, coreVars, schedVars, memVars, mesh, last, layers, execution_queue, running_tasks, clients, spawned>>

\* TaskMesh::add_dependency on the orchestrator's mesh, between calls (it
\* takes the mesh by &mut, so it never runs inside another call).
OrchAddDependency(eid, source, target, kind) ==
    LET r == MeshAddDependency(mesh, DependencyEdgeNew(eid, source, target, kind))
    IN /\ \A c \in Clients : At(c, "idle")
       /\ Len(r.mesh.edges) <= OrchMaxEdges
       /\ r.tag = "Ok"
       /\ mesh' = r.mesh
       /\ UNCHANGED <<last, orchVars, execVars, errVars, backupVars, stopVars, registryVars, coreVars, schedVars, memVars>>

\* OrchestratorCore::add_task, lines 156-159: insert under the mesh write lock.
AddTaskInsert(c, id) ==
    /\ At(c, "idle")
    /\ Len(mesh.nodes) < OrchMaxNodes
    /\ mesh' = MeshAddTask(mesh, TaskNodeNew(id))
    /\ clients' = [clients EXCEPT ![c] = [pc |-> "add_check", id |-> id]]
    /\ UNCHANGED <<execVars, errVars, backupVars, stopVars, registryVars, coreVars, schedVars, memVars, last, orch_status, layers, execution_queue, running_tasks, spawned>>

\* OrchestratorCore::add_task, line 162: is_task_ready under the mesh read lock.
AddTaskCheck(c) ==
    /\ At(c, "add_check")
    /\ IF MeshCanExecuteTask(mesh, clients[c].id) THEN Goto(c, "add_push") ELSE Return(c)
    /\ UNCHANGED <<execVars, errVars, backupVars, stopVars, registryVars, coreVars, schedVars, memVars, mesh, last, orch_status, layers, execution_queue, running_tasks, spawned>>

\* OrchestratorCore::add_task, lines 163-166: push under the queue lock.
AddTaskPush(c) ==
    /\ At(c, "add_push")
    /\ execution_queue' = Append(execution_queue, clients[c].id)
    /\ Return(c)
    /\ UNCHANGED <<execVars, errVars, backupVars, stopVars, registryVars, coreVars, schedVars, memVars, mesh, last, orch_status, layers, running_tasks, spawned>>

\* OrchestratorCore::execute_task, lines 215-220: the task is looked up
\* (TaskNotFound returns at once and changes nothing).
ExecLookup(c, id) ==
    /\ At(c, "idle")
    /\ MeshHasTask(mesh, id)
    /\ clients' = [clients EXCEPT ![c] = [pc |-> "ex_check", id |-> id]]
    /\ UNCHANGED <<execVars, errVars, backupVars, stopVars, registryVars, coreVars, schedVars, memVars, mesh, last, orch_status, layers, execution_queue, running_tasks, spawned>>

\* lines 223-227: is_task_ready, else InvalidState.
ExecCheck(c) ==
    /\ At(c, "ex_check")
    /\ IF MeshCanExecuteTask(mesh, clients[c].id) THEN Goto(c, "ex_mark") ELSE Return(c)
    /\ UNCHANGED <<execVars, errVars, backupVars, stopVars, registryVars, coreVars, schedVars, memVars, mesh, last, orch_status, layers, execution_queue, running_tasks, spawned>>

\* lines 230-235: status Running under the mesh write lock.
ExecMark(c) ==
    /\ At(c, "ex_mark")
    /\ mesh' = MeshUpdateStatus(mesh, clients[c].id, "Running")
    /\ Goto(c, "ex_layer")
    /\ UNCHANGED <<execVars, errVars, backupVars, stopVars, registryVars, coreVars, schedVars, memVars, last, orch_status, layers, execution_queue, running_tasks, spawned>>

\* ContinuousLearning::recommend_execution_layer for a task without tags and
\* components (TaskNode::new).
SelectExecutionLayer == "Local"

\* lines 238-246: select the layer, get_layer (LayerNotAvailable returns),
\* then the task is handed to the layer.
ExecLayer(c) ==
    /\ At(c, "ex_layer")
    /\ IF SelectExecutionLayer \in layers THEN Goto(c, "ex_run") ELSE Return(c)
    /\ UNCHANGED <<execVars, errVars, backupVars, stopVars, registryVars, coreVars, schedVars, memVars, mesh, last, orch_status, layers, execution_queue, running_tasks, spawned>>

\* lines 248-268: the layer returned Ok, status Completed.
ExecSucceed(c) ==
    /\ At(c, "ex_run")
    /\ mesh' = MeshUpdateStatus(mesh, clients[c].id, "Completed")
    /\ Goto(c, "ex_enqueue")
    /\ UNCHANGED <<execVars, errVars, backupVars, stopVars, registryVars, coreVars, schedVars, memVars, last, orch_status, layers, execution_queue, running_tasks, spawned>>

\* lines 269-283: the layer returned Err, status Failed, the error is returned.
ExecFail(c) ==
    /\ At(c, "ex_run")
    /\ mesh' = MeshUpdateStatus(mesh, clients[c].id, "Failed")
    /\ Return(c)
    /\ UNCHANGED <<execVars, errVars, backupVars, stopVars, registryVars, coreVars, schedVars, memVars, last, orch_status, layers, execution_queue, running_tasks, spawned>>

\* The ids enqueue_dependent_tasks pushes: each dependent that passes
\* can_execute_task, in get_dependents order.
RECURSIVE ReadyDependents(_, _)
ReadyDependents(m, deps) ==
    IF deps = <<>> THEN <<>>
    ELSE (IF MeshCanExecuteTask(m, m.nodes[Head(deps)].id)
          THEN <<m.nodes[Head(deps)].id>> ELSE <<>>)
         \o ReadyDependents(m, Tail(deps))

\* OrchestratorCore::enqueue_dependent_tasks (mesh read lock and queue lock held).
ExecEnqueue(c) ==
    /\ At(c, "ex_enqueue")
    /\ execution_queue' =
          execution_queue \o ReadyDependents(mesh, MeshGetDependents(mesh, clients[c].id))
    /\ Return(c)
    /\ UNCHANGED <<execVars, errVars, backupVars, stopVars, registryVars, coreVars, schedVars, memVars, mesh, last, orch_status, layers, running_tasks, spawned>>

\* start_execution_loop, lines 363-377: Vec::pop takes the last id of the
\* queue, an execution is spawned for it and its handle is recorded.
InFlight(id) == spawned[id].lookup + spawned[id].run

RECURSIVE InFlightTotal(_)
InFlightTotal(S) ==
    IF S = {} THEN 0
    ELSE LET x == CHOOSE y \in S : TRUE IN InFlight(x) + InFlightTotal(S \ {x})

LoopPop ==
    /\ orch_status # "Initializing"
    /\ execution_queue # <<>>
    /\ InFlightTotal(TaskIds) < MaxInFlight
    /\ LET task_id == execution_queue[Len(execution_queue)]
       IN /\ execution_queue' = SubSeq(execution_queue, 1, Len(execution_queue) - 1)
          /\ spawned' = [spawned EXCEPT ![task_id].lookup = @ + 1]
          /\ running_tasks' = running_tasks \cup {task_id}
    /\ UNCHANGED <<execVars, errVars, backupVars, stopVars, registryVars, coreVars, schedVars, memVars, mesh, last, orch_status, layers, clients>>

\* OrchestratorCoreRef::execute_task, lines 497-507: the task is looked up,
\* the Local layer is fetched (LayerNotAvailable ends the execution) and the
\* task is handed to it.  No readiness check, no status update.
RefLookup(id) ==
    /\ spawned[id].lookup > 0
    /\ spawned' = IF MeshHasTask(mesh, id) /\ "Local" \in layers
                  THEN [spawned EXCEPT ![id].lookup = @ - 1, ![id].run = @ + 1]
                  ELSE [spawned EXCEPT ![id].lookup = @ - 1]
    /\ UNCHANGED <<execVars, errVars, backupVars, stopVars, registryVars, coreVars, schedVars, memVars, mesh, last, orch_status, layers, execution_queue, running_tasks, clients>>

\* OrchestratorCoreRef::execute_task, line 509, and the spawned closure,
\* lines 370-374: the layer's result, Ok or Err, is returned and only logged.
RefFinish(id) ==
    /\ spawned[id].run > 0
    /\ spawned' = [spawned EXCEPT ![id].run = @ - 1]
    /\ UNCHANGED <<execVars, errVars, backupVars, stopVars, registryVars, coreVars, schedVars, memVars, mesh, last, orch_status, layers, execution_queue, running_tasks, clients>>

\* OrchestratorCore::stop, lines 128-131: status Shutting under the status
\* write lock.  stop is called once, on a started orchestrator
\* (test_orchestrator_lifecycle).
OrchStopBegin ==
    /\ orch_status = "Running"
    /\ stop_call = "idle"
    /\ orch_status' = "Shutting"
    /\ stop_call' = "abort"
    /\ UNCHANGED <<execVars, errVars, backupVars, coreVars, schedVars, memVars, registryVars, mesh, last, layers, execution_queue, running_tasks, clients, spawned>>

\* JoinHandle::abort on every handle of running_tasks: the executions the
\* loop spawned for these ids end at the await they are at.  The map itself
\* is only read.
AbortHandles(handles) ==
    [id \in TaskIds |-> IF id \in handles THEN [lookup |-> 0, run |-> 0] ELSE spawned[id]]

\* OrchestratorCore::stop, lines 134-137: every join handle is aborted under
\* the running_tasks read lock.
OrchStopAbort ==
    /\ stop_call = "abort"
    /\ spawned' = AbortHandles(running_tasks)
    /\ stop_call' = "finish"
    /\ UNCHANGED <<execVars, errVars, backupVars, coreVars, schedVars, memVars, registryVars, mesh, last, orch_status, layers, execution_queue, running_tasks, clients>>

\* OrchestratorCore::stop, lines 139-145: status Stopped, Ok is returned.
OrchStopFinish ==
    /\ stop_call = "finish"
    /\ orch_status' = "Stopped"
    /\ stop_call' = "returned"
    /\ UNCHANGED <<execVars, errVars, backupVars, coreVars, schedVars, memVars, registryVars, mesh, last, layers, execution_queue, running_tasks, clients, spawned>>

NextOrch ==
    \/ OrchStart
    \/ OrchStopBegin
    \/ OrchStopAbort
    \/ OrchStopFinish
    \/ \E eid \in OrchEdgeIds, s \in OrchTaskIds, t \in OrchTaskIds, k \in OrchKinds :
          OrchAddDependency(eid, s, t, k)
    \/ \E c \in Clients, id \in OrchTaskIds : AddTaskInsert(c, id)
    \/ \E c \in Clients : AddTaskCheck(c)
    \/ \E c \in Clients : AddTaskPush(c)
    \/ \E c \in Clients, id \in OrchTaskIds : ExecLookup(c, id)
    \/ \E c \in Clients : ExecCheck(c)
    \/ \E c \in Clients : ExecMark(c)
    \/ \E c \in Clients : ExecLayer(c)
    \/ \E c \in Clients : ExecSucceed(c)
    \/ \E c \in Clients : ExecFail(c)
    \/ \E c \in Clients : ExecEnqueue(c)
    \/ LoopPop
    \/ \E id \in OrchTaskIds : RefLookup(id)
    \/ \E id \in OrchTaskIds : RefFinish(id)

SpecOrch == InitOrch /\ [][NextOrch]_vars

(***************************************************************************)
(* SpecOrchFair: the orchestrator with the Local layer registered and      *)
(* always succeeding.  Every step of a call in progress, of the execution  *)
(* loop and of a spawned execution is eventually taken (the tokio runtime  *)
(* polls every ready future); whether clients make further calls is left   *)
(* open.                                                                   *)
(***************************************************************************)
InitOrchFair ==
    /\ InitOrch
    /\ layers = {"Local"}

NextOrchFair ==
    \/ OrchStart
    \/ \E eid \in OrchEdgeIds, s \in OrchTaskIds, t \in OrchTaskIds, k \in OrchKinds :
          OrchAddDependency(eid, s, t, k)
    \/ \E c \in Clients, id \in OrchTaskIds : AddTaskInsert(c, id)
    \/ \E c \in Clients : AddTaskCheck(c)
    \/ \E c \in Clients : AddTaskPush(c)
    \/ \E c \in Clients, id \in OrchTaskIds : ExecLookup(c, id)
    \/ \E c \in Clients : ExecCheck(c)
    \/ \E c \in Clients : ExecMark(c)
    \/ \E c \in Clients : ExecLayer(c)
    \/ \E c \in Clients : ExecSucceed(c)
    \/ \E c \in Clients : ExecEnqueue(c)
    \/ LoopPop
    \/ \E id \in OrchTaskIds : RefLookup(id)
    \/ \E id \in OrchTaskIds : RefFinish(id)

CallInProgress(c) ==
    AddTaskCheck(c) \/ AddTaskPush(c) \/ ExecCheck(c) \/ ExecMark(c) \/ ExecLayer(c)
       \/ ExecSucceed(c) \/ ExecEnqueue(c)

FairOrch ==
    /\ WF_vars(OrchStart)
    /\ WF_vars(LoopPop)
    /\ \A id \in OrchTaskIds : WF_vars(RefLookup(id)) /\ WF_vars(RefFinish(id))
    /\ \A c \in Clients : WF_vars(CallInProgress(c))

SpecOrchFair == InitOrchFair /\ [][NextOrchFair]_vars /\ FairOrch

(***************************************************************************)
(* SpecExec: TaskExecutor (task_mesh_core/src/executor.rs) over a          *)
(* StateStore (task_mesh_core/src/state_store.rs).                         *)
(*                                                                         *)
(* Callers run execute_task, cancel_task and shutdown concurrently with    *)
(* the command loop.  The loop receives one command at a time and awaits   *)
(* its handler to the end before it receives the next one;                 *)
(* handle_execute_task advances one await at a time.  clone_arc, whose     *)
(* body is todo!(), is taken to hand the loop the executor itself, as its  *)
(* doc comment says.  update_task_status returns Ok or Err (the            *)
(* StateStore is a trait object; the SQLite and Redis stores can fail).    *)
(* An execution ends Ok, Err, or, once its cancel token is tripped,        *)
(* interrupted (the cancelled arm of select! in execute_command).          *)
(* WorkerPool::stop_all only sets Worker.status, which nothing here reads. *)
(***************************************************************************)
StoreStatus == {"Pending", "Scheduled", "Running", "Completed", "Failed",
                "Cancelled", "Paused"}

ExecutorCommand(cmd, task_id) == [cmd |-> cmd, task_id |-> task_id]

\* StateStore::update_task_status returning Ok.
StoreUpdate(store, task_id, status) == [store EXCEPT ![task_id] = status]

\* mpsc::UnboundedSender::send: the command is queued unless the receiver
\* was dropped (the loop has ended), in which case send returns an error.
Send(command) ==
    IF command_loop.pc = "stopped" THEN command_channel
    ELSE Append(command_channel, command)

CanSend == command_loop.pc = "stopped" \/ Len(command_channel) < MaxCommands

InitExec ==
    /\ mesh = TaskMeshNew
    /\ last = Call("new", "Ok")
    /\ InitOrchIdle

\* TaskExecutor::start: the command loop is spawned.
ExecutorStart ==
    /\ command_loop.pc = "unstarted"
    /\ command_loop' = LoopIdle("recv")
    /\ UNCHANGED <<meshVars, orchVars, errVars, backupVars, stopVars, registryVars, coreVars, schedVars, memVars, attempts, task_status, command_channel, executor_running,
                   available_workers, permits, execute_calls, cancel_during_execution>>

\* TaskExecutor::execute_task, line 213: the call goes on unless the id has
\* an entry in running_tasks (then it returns Internal, nothing changed).
ExecuteTaskCheck(task_id) ==
    /\ task_id \notin execute_calls
    /\ task_id \notin executor_running
    /\ execute_calls' = execute_calls \cup {task_id}
    /\ UNCHANGED <<meshVars, orchVars, errVars, backupVars, stopVars, registryVars, coreVars, schedVars, memVars, attempts, task_status, command_channel, executor_running,
                   available_workers, permits, command_loop, cancel_during_execution>>

\* TaskExecutor::execute_task, lines 220-232: status Running is stored, then
\* ExecuteTask is sent.
ExecuteTaskSend(task_id) ==
    /\ task_id \in execute_calls
    /\ CanSend
    /\ task_status' = StoreUpdate(task_status, task_id, "Running")
    /\ command_channel' = Send(ExecutorCommand("ExecuteTask", task_id))
    /\ execute_calls' = execute_calls \ {task_id}
    /\ UNCHANGED <<meshVars, orchVars, errVars, backupVars, stopVars, registryVars, coreVars, schedVars, memVars, attempts, executor_running, available_workers, permits,
                   command_loop, cancel_during_execution>>

\* TaskExecutor::execute_task, line 226: the store returned Err, the call
\* returns it and sends nothing.
ExecuteTaskStoreError(task_id) ==
    /\ task_id \in execute_calls
    /\ execute_calls' = execute_calls \ {task_id}
    /\ UNCHANGED <<meshVars, orchVars, errVars, backupVars, stopVars, registryVars, coreVars, schedVars, memVars, attempts, task_status, command_channel, executor_running,
                   available_workers, permits, command_loop, cancel_during_execution>>

\* TaskExecutor::cancel_task: CancelTask is sent, nothing else.
CancelTask(task_id) ==
    /\ CanSend
    /\ command_channel' = Send(ExecutorCommand("CancelTask", task_id))
    /\ cancel_during_execution' =
          (cancel_during_execution
             \/ (command_loop.pc = "executing" /\ command_loop.task_id = task_id))
    /\ UNCHANGED <<meshVars, orchVars, errVars, backupVars, stopVars, registryVars, coreVars, schedVars, memVars, attempts, task_status, executor_running, available_workers,
                   permits, command_loop, execute_calls>>

\* TaskExecutor::shutdown: the token of every entry of running_tasks is
\* cancelled, the workers are stopped, Shutdown is sent.
ExecutorShutdown ==
    /\ CanSend
    /\ command_loop' =
          IF command_loop.task_id \in executor_running /\ command_loop.token = "live"
          THEN [command_loop EXCEPT !.token = "cancelled"]
          ELSE command_loop
    /\ command_channel' = Send(ExecutorCommand("Shutdown", 0))
    /\ UNCHANGED <<meshVars, orchVars, errVars, backupVars, stopVars, registryVars, coreVars, schedVars, memVars, attempts, task_status, executor_running, available_workers,
                   permits, execute_calls, cancel_during_execution>>

\* The command the loop receives next.
Received(cmd) ==
    /\ command_loop.pc = "recv"
    /\ command_channel # <<>>
    /\ Head(command_channel).cmd = cmd

\* handle_execute_task, lines 321-351: a permit is acquired, a worker is
\* popped, a cancel token is created and the task is entered in
\* running_tasks.
HandleExecuteTaskBegin ==
    /\ Received("ExecuteTask")
    /\ permits > 0
    /\ available_workers # <<>>
    /\ command_channel' = Tail(command_channel)
    /\ permits' = permits - 1
    /\ available_workers' = SubSeq(available_workers, 1, Len(available_workers) - 1)
    /\ executor_running' = executor_running \cup {Head(command_channel).task_id}
    /\ command_loop' = [pc |-> "mark", task_id |-> Head(command_channel).task_id,
                        token |-> "live", result |-> "none"]
    /\ cancel_during_execution' = FALSE
    /\ attempts' = [attempts EXCEPT ![Head(command_channel).task_id] =
                                        IF @ < 2 THEN @ + 1 ELSE @]
    /\ UNCHANGED <<meshVars, orchVars, errVars, backupVars, stopVars, registryVars, coreVars, schedVars, memVars, task_status, execute_calls>>

\* handle_execute_task, lines 325-328: no worker is available, the handler
\* returns ResourceUnavailable and the permit it held is dropped.
HandleExecuteTaskNoWorker ==
    /\ Received("ExecuteTask")
    /\ permits > 0
    /\ available_workers = <<>>
    /\ command_channel' = Tail(command_channel)
    /\ UNCHANGED <<meshVars, orchVars, errVars, backupVars, stopVars, registryVars, coreVars, schedVars, memVars, attempts, task_status, executor_running, available_workers,
                   permits, command_loop, execute_calls, cancel_during_execution>>

\* handle_execute_task, lines 354-360: status Running is stored.
HandleMarkRunning ==
    /\ command_loop.pc = "mark"
    /\ task_status' = StoreUpdate(task_status, command_loop.task_id, "Running")
    /\ command_loop' = [command_loop EXCEPT !.pc = "executing"]
    /\ UNCHANGED <<meshVars, orchVars, errVars, backupVars, stopVars, registryVars, coreVars, schedVars, memVars, attempts, command_channel, executor_running,
                   available_workers, permits, execute_calls, cancel_during_execution>>

\* handle_execute_task, line 360: the store returned Err, the handler
\* returns it; the permit is dropped, nothing else is undone.
HandleMarkStoreError ==
    /\ command_loop.pc = "mark"
    /\ permits' = permits + 1
    /\ command_loop' = LoopIdle("recv")
    /\ UNCHANGED <<meshVars, orchVars, errVars, backupVars, stopVars, registryVars, coreVars, schedVars, memVars, attempts, task_status, command_channel, executor_running,
                   available_workers, execute_calls, cancel_during_execution>>

\* Task::new: max_retries of a task.
TaskMaxRetries == 3

\* What execute_task_on_worker returns: Ok, an error (Io, ExecutionError),
\* ExecutionTimeout (execute_command, line 508) or, once the cancel token is
\* tripped, the ExecutionError of the cancelled arm (lines 499-503).
ExecutionResults == {"Ok", "Err", "Timeout", "Interrupted"}

\* handle_execute_task, lines 363-371: execute_task_on_worker returns and the
\* task is removed from running_tasks.
HandleExecuteReturns(result) ==
    /\ command_loop.pc = "executing"
    /\ result = "Interrupted" => command_loop.token = "cancelled"
    /\ executor_running' = executor_running \ {command_loop.task_id}
    /\ command_loop' = [command_loop EXCEPT !.pc = "result", !.result = result]
    /\ UNCHANGED <<meshVars, orchVars, errVars, backupVars, stopVars, registryVars, coreVars, schedVars, memVars, attempts, task_status, command_channel, available_workers,
                   permits, execute_calls, cancel_during_execution>>

\* handle_execute_task, lines 374-400: Ok is stored as Completed, any Err as
\* Failed; the handler returns and the permit is dropped.
HandleStoreResult ==
    /\ command_loop.pc = "result"
    /\ task_status' = StoreUpdate(task_status, command_loop.task_id,
                                  IF command_loop.result = "Ok" THEN "Completed"
                                  ELSE "Failed")
    /\ permits' = permits + 1
    /\ command_loop' = LoopIdle("recv")
    /\ UNCHANGED <<meshVars, orchVars, errVars, backupVars, stopVars, registryVars, coreVars, schedVars, memVars, attempts, command_channel, executor_running,
                   available_workers, execute_calls, cancel_during_execution>>

\* handle_execute_task, lines 383 and 395: the store returned Err.
HandleStoreResultError ==
    /\ command_loop.pc = "result"
    /\ permits' = permits + 1
    /\ command_loop' = LoopIdle("recv")
    /\ UNCHANGED <<meshVars, orchVars, errVars, backupVars, stopVars, registryVars, coreVars, schedVars, memVars, attempts, task_status, command_channel, executor_running,
                   available_workers, execute_calls, cancel_during_execution>>

\* handle_cancel_task, lines 407-422: the id has an entry in running_tasks;
\* its token is cancelled, status Cancelled is stored, the entry is removed.
\* `last` records what the handler returned (line 427: Ok).
HandleCancelTaskKeepsEntry ==
    /\ Received("CancelTask")
    /\ Head(command_channel).task_id \in executor_running
    /\ command_channel' = Tail(command_channel)
    /\ task_status' = StoreUpdate(task_status, Head(command_channel).task_id, "Cancelled")
    /\ last' = Call("handle_cancel_task", "Ok")
    /\ UNCHANGED <<mesh, orchVars, errVars, backupVars, stopVars, registryVars, coreVars, schedVars, memVars, attempts, executor_running, available_workers, permits,
                   command_loop, execute_calls, cancel_during_execution>>

HandleCancelTask ==
    /\ Received("CancelTask")
    /\ Head(command_channel).task_id \in executor_running
    /\ command_channel' = Tail(command_channel)
    /\ task_status' = StoreUpdate(task_status, Head(command_channel).task_id, "Cancelled")
    /\ executor_running' = executor_running \ {Head(command_channel).task_id}
    /\ last' = Call("handle_cancel_task", "Ok")
    /\ UNCHANGED <<mesh, orchVars, errVars, backupVars, stopVars, registryVars, coreVars, schedVars, memVars, attempts, available_workers, permits, command_loop,
                   execute_calls, cancel_during_execution>>

\* handle_cancel_task, line 419: the store returned Err, the entry stays.
HandleCancelTaskStoreError ==
    /\ Received("CancelTask")
    /\ Head(command_channel).task_id \in executor_running
    /\ command_channel' = Tail(command_channel)
    /\ last' = Call("handle_cancel_task", "Err")
    /\ UNCHANGED <<mesh, orchVars, errVars, backupVars, stopVars, registryVars, coreVars, schedVars, memVars, attempts, task_status, executor_running, available_workers,
                   permits, command_loop, execute_calls, cancel_during_execution>>

\* handle_cancel_task, lines 423-425: the id has no entry, only a warning.
HandleCancelTaskNotRunning ==
    /\ Received("CancelTask")
    /\ Head(command_channel).task_id \notin executor_running
    /\ command_channel' = Tail(command_channel)
    /\ last' = Call("handle_cancel_task", "Ok")
    /\ UNCHANGED <<mesh, orchVars, errVars, backupVars, stopVars, registryVars, coreVars, schedVars, memVars, attempts, task_status, executor_running, available_workers,
                   permits, command_loop, execute_calls, cancel_during_execution>>

\* start_command_loop, lines 302-305: Shutdown ends the loop; the receiver
\* is dropped with whatever it still held.
HandleShutdown ==
    /\ Received("Shutdown")
    /\ command_channel' = <<>>
    /\ command_loop' = LoopIdle("stopped")
    /\ UNCHANGED <<meshVars, orchVars, errVars, backupVars, stopVars, registryVars, coreVars, schedVars, memVars, attempts, task_status, executor_running, available_workers,
                   permits, execute_calls, cancel_during_execution>>

NextExec ==
    \/ ExecutorStart
    \/ \E id \in ExecTaskIds : ExecuteTaskCheck(id)
    \/ \E id \in ExecTaskIds : ExecuteTaskSend(id)
    \/ \E id \in ExecTaskIds : ExecuteTaskStoreError(id)
    \/ \E id \in ExecTaskIds : CancelTask(id)
    \/ ExecutorShutdown
    \/ HandleExecuteTaskBegin
    \/ HandleExecuteTaskNoWorker
    \/ HandleMarkRunning
    \/ HandleMarkStoreError
    \/ \E result \in ExecutionResults : HandleExecuteReturns(result)
    \/ HandleStoreResult
    \/ HandleStoreResultError
    \/ HandleCancelTask
    \/ HandleCancelTaskStoreError
    \/ HandleCancelTaskNotRunning
    \/ HandleShutdown

SpecExec == InitExec /\ [][NextExec]_vars

(***************************************************************************)
(* SpecCore: TaskMeshCore (task_mesh_core/src/lib.rs) over the executor of *)
(* SpecExec.  start and shutdown are called once each.  The source of      *)
(* CheckpointEngine is not part of the repository's sources: the engine is *)
(* a running flag and the number of checkpoints it created, and each of    *)
(* its calls returns Ok or Err.                                            *)
(***************************************************************************)
InitCore ==
    /\ mesh = TaskMeshNew
    /\ last = Call("new", "Ok")
    /\ InitOrchIdle

\* CheckpointEngine::start and CheckpointEngine::stop returning Ok.
EngineStart(engine) == [engine EXCEPT !.running = TRUE]

EngineStop(engine) == [engine EXCEPT !.running = FALSE]

\* CheckpointEngine::create_checkpoint returning Ok.
EngineCreateCheckpoint(engine) == [engine EXCEPT !.checkpoints = @ + 1]

\* TaskMeshCore::start: the checkpoint engine is started, then the executor
\* (TaskExecutor::start spawns the command loop).
CoreStart ==
    /\ command_loop.pc = "unstarted"
    /\ checkpoint_engine' = EngineStart(checkpoint_engine)
    /\ command_loop' = LoopIdle("recv")
    /\ UNCHANGED <<meshVars, orchVars, errVars, backupVars, stopVars, registryVars, schedVars, memVars, core_shutdown, attempts, task_status, command_channel,
                   executor_running, available_workers, permits, execute_calls, cancel_during_execution>>

\* The command loop after TaskExecutor::shutdown's pass over running_tasks
\* (lines 185-191): the token of every entry is cancelled.
CancelRunningTasks ==
    IF command_loop.task_id \in executor_running /\ command_loop.token = "live"
    THEN [command_loop EXCEPT !.token = "cancelled"]
    ELSE command_loop

\* TaskMeshCore::shutdown, line 174: TaskExecutor::shutdown cancels the
\* token of every entry of running_tasks, stops the workers and sends
\* Shutdown.  shutdown is called on a started core.
CoreShutdownExecutor ==
    /\ core_shutdown = "idle"
    /\ command_loop.pc # "unstarted"
    /\ CanSend
    /\ command_loop' = CancelRunningTasks
    /\ command_channel' = Send(ExecutorCommand("Shutdown", 0))
    /\ core_shutdown' = "stop_engine"
    /\ UNCHANGED <<meshVars, orchVars, errVars, backupVars, stopVars, registryVars, schedVars, memVars, checkpoint_engine, attempts, task_status,
                   executor_running, available_workers, permits, execute_calls, cancel_during_execution>>

\* TaskMeshCore::shutdown, line 177: CheckpointEngine::stop returned Ok.
CoreShutdownStopEngine ==
    /\ core_shutdown = "stop_engine"
    /\ checkpoint_engine' = EngineStop(checkpoint_engine)
    /\ core_shutdown' = "create_checkpoint"
    /\ UNCHANGED <<meshVars, orchVars, execVars, errVars, backupVars, stopVars, registryVars, schedVars, memVars>>

\* TaskMeshCore::shutdown, line 177: CheckpointEngine::stop returned Err and
\* the ? returns it.
CoreShutdownStopEngineFails ==
    /\ core_shutdown = "stop_engine"
    /\ core_shutdown' = "Err"
    /\ UNCHANGED <<meshVars, orchVars, execVars, errVars, backupVars, stopVars, registryVars, schedVars, memVars, checkpoint_engine>>

\* TaskMeshCore::shutdown, lines 180-183: the final checkpoint is created
\* and Ok is returned.
CoreShutdownCreateCheckpoint ==
    /\ core_shutdown = "create_checkpoint"
    /\ checkpoint_engine' = EngineCreateCheckpoint(checkpoint_engine)
    /\ core_shutdown' = "Ok"
    /\ UNCHANGED <<meshVars, orchVars, execVars, errVars, backupVars, stopVars, registryVars, schedVars, memVars>>

\* TaskMeshCore::shutdown, line 180: create_checkpoint returned Err and the
\* ? returns it.
CoreShutdownCreateCheckpointFails ==
    /\ core_shutdown = "create_checkpoint"
    /\ core_shutdown' = "Err"
    /\ UNCHANGED <<meshVars, orchVars, execVars, errVars, backupVars, stopVars, registryVars, schedVars, memVars, checkpoint_engine>>

NextCore ==
    \/ CoreStart
    \/ \E id \in ExecTaskIds : ExecuteTaskCheck(id)
    \/ \E id \in ExecTaskIds : ExecuteTaskSend(id)
    \/ \E id \in ExecTaskIds : ExecuteTaskStoreError(id)
    \/ \E id \in ExecTaskIds : CancelTask(id)
    \/ HandleExecuteTaskBegin
    \/ HandleExecuteTaskNoWorker
    \/ HandleMarkRunning
    \/ HandleMarkStoreError
    \/ \E result \in ExecutionResults : HandleExecuteReturns(result)
    \/ HandleStoreResult
    \/ HandleStoreResultError
    \/ HandleCancelTask
    \/ HandleCancelTaskStoreError
    \/ HandleCancelTaskNotRunning
    \/ HandleShutdown
    \/ CoreShutdownExecutor
    \/ CoreShutdownStopEngine
    \/ CoreShutdownStopEngineFails
    \/ CoreShutdownCreateCheckpoint
    \/ CoreShutdownCreateCheckpointFails

SpecCore == InitCore /\ [][NextCore]_vars

(***************************************************************************)
(* SpecRegistry: TaskRegistry (task_mesh_core/src/task_registry.rs).  A    *)
(* task is its id, name, dependencies, priority and tags; the maps of the  *)
(* registry are functions whose domain is the set of keys present.         *)
(***************************************************************************)
RegTaskIds == 1..NumRegTasks

RegNames == {"a", "b"}

RegTagSets == {{}, {"x"}}

\* Task::new: the priority of a task.
TaskPriority == 50

RECURSIVE SeqsUpTo(_, _)
SeqsUpTo(S, n) ==
    IF n = 0 THEN {<<>>}
    ELSE LET shorter == SeqsUpTo(S, n - 1)
         IN shorter \cup {Append(q, x) : q \in {r \in shorter : Len(r) = n - 1}, x \in S}

\* The tasks register_task is called with.
RegTasks ==
    [id : RegTaskIds, name : RegNames, dependencies : SeqsUpTo(RegTaskIds, MaxDependencies),
     priority : {TaskPriority}, tags : RegTagSets]

SeqRange(q) == {q[i] : i \in DOMAIN q}

\* entry(k).or_insert_with(HashSet::new).insert(id) for every k of keys.
IndexInsert(f, keys, id) ==
    [k \in DOMAIN f \cup keys |->
        (IF k \in DOMAIN f THEN f[k] ELSE {}) \cup (IF k \in keys THEN {id} ELSE {})]

\* For every k of keys: id is removed from the set at k, and the entry is
\* removed once its set is empty.
IndexRemove(f, keys, id) ==
    [k \in {x \in DOMAIN f : x \notin keys \/ f[x] \ {id} # {}} |->
        IF k \in keys THEN f[k] \ {id} ELSE f[k]]

\* TaskRegistry::has_path_to: the tasks reached from the ids of frontier
\* along reverse_dependency_index.
RECURSIVE Dependents(_, _, _)
Dependents(reg, frontier, visited) ==
    LET next == UNION {reg.reverse_dependency_index[x] :
                         x \in frontier \cap DOMAIN reg.reverse_dependency_index}
    IN IF next \subseteq visited THEN visited
       ELSE Dependents(reg, next \ visited, visited \cup next)

HasPathTo(reg, from, to) == from = to \/ to \in Dependents(reg, {from}, {})

\* TaskRegistry::would_create_cycle.
WouldCreateCycle(reg, task) ==
    \E i \in DOMAIN task.dependencies : HasPathTo(reg, task.dependencies[i], task.id)

\* TaskRegistry::validate_dependencies: the first dependency, in the order
\* of task.dependencies, that is not a key of tasks is returned as
\* TaskNotFound; then the cycle check.
ValidateDependencies(reg, task) ==
    LET missing == {i \in DOMAIN task.dependencies :
                       task.dependencies[i] \notin DOMAIN reg.tasks}
    IN IF missing # {}
       THEN RegistryResult("register_task", "TaskNotFound",
                           task.dependencies[CHOOSE i \in missing : \A j \in missing : i <= j])
       ELSE IF WouldCreateCycle(reg, task)
       THEN RegistryResult("register_task", "CircularDependency", 0)
       ELSE RegistryResult("register_task", "Ok", 0)

\* TaskRegistry::update_indices.
UpdateIndices(reg, task) ==
    [reg EXCEPT
       !.name_index = MapInsert(@, task.name, task.id),
       !.tag_index = IndexInsert(@, task.tags, task.id),
       !.priority_index = IndexInsert(@, {task.priority}, task.id),
       !.dependency_index = MapInsert(@, task.id, SeqRange(task.dependencies)),
       !.reverse_dependency_index = IndexInsert(@, SeqRange(task.dependencies), task.id)]

\* TaskRegistry::remove_from_indices.
RemoveFromIndices(reg, task) ==
    [reg EXCEPT
       !.name_index = MapRemove(@, task.name),
       !.tag_index = IndexRemove(@, task.tags, task.id),
       !.priority_index = IndexRemove(@, {task.priority}, task.id),
       !.dependency_index = MapRemove(@, task.id),
       !.reverse_dependency_index = IndexRemove(@, SeqRange(task.dependencies), task.id)]

\* tasks.insert and metadata.total_tasks = tasks.len().
InsertTask(reg, task) ==
    LET tasks == MapInsert(reg.tasks, task.id, task)
    IN [reg EXCEPT !.tasks = tasks, !.total_tasks = Cardinality(DOMAIN tasks)]

\* A register_task that updates the indexes before it validates the
\* dependencies.
RegisterTaskIndexFirst(reg, task) ==
    LET result == ValidateDependencies(reg, task)
    IN IF result.tag # "Ok"
       THEN [registry |-> UpdateIndices(reg, task), result |-> result]
       ELSE [registry |-> InsertTask(UpdateIndices(reg, task), task), result |-> result]

\* TaskRegistry::register_task: the registry after the call and what the
\* call returned.  A task whose id is already registered is registered
\* again (only a warning).
RegisterTask(reg, task) ==
    LET result == ValidateDependencies(reg, task)
    IN IF result.tag # "Ok"
       THEN [registry |-> reg, result |-> result]
       ELSE [registry |-> InsertTask(UpdateIndices(reg, task), task), result |-> result]

\* TaskRegistry::unregister_task.
UnregisterTask(reg, task_id) ==
    IF task_id \notin DOMAIN reg.tasks
    THEN [registry |-> reg,
          result |-> RegistryResult("unregister_task", "TaskNotFound", task_id)]
    ELSE LET tasks == MapRemove(reg.tasks, task_id)
             removed == RemoveFromIndices([reg EXCEPT !.tasks = tasks], reg.tasks[task_id])
         IN [registry |-> [removed EXCEPT !.total_tasks = Cardinality(DOMAIN tasks)],
             result |-> RegistryResult("unregister_task", "Ok", task_id)]

\* TaskRegistry::get_ready_tasks: the tasks every dependency of which is in
\* completed_tasks (their ids; the Vec has no defined order).
GetReadyTasks(reg, completed_tasks) ==
    {id \in DOMAIN reg.tasks :
        \A i \in DOMAIN reg.tasks[id].dependencies :
           reg.tasks[id].dependencies[i] \in completed_tasks}

InitRegistry ==
    /\ mesh = TaskMeshNew
    /\ last = Call("new", "Ok")
    /\ InitOrchIdle

CallRegisterTask(task) ==
    /\ registry' = RegisterTask(registry, task).registry
    /\ registry_result' = RegisterTask(registry, task).result
    /\ UNCHANGED <<meshVars, orchVars, execVars, errVars, backupVars, stopVars, coreVars, schedVars, memVars>>

CallUnregisterTask(task_id) ==
    /\ registry' = UnregisterTask(registry, task_id).registry
    /\ registry_result' = UnregisterTask(registry, task_id).result
    /\ UNCHANGED <<meshVars, orchVars, execVars, errVars, backupVars, stopVars, coreVars, schedVars, memVars>>

NextRegistry ==
    \/ \E task \in RegTasks : CallRegisterTask(task)
    \/ \E task_id \in RegTaskIds : CallUnregisterTask(task_id)

SpecRegistry == InitRegistry /\ [][NextRegistry]_vars

(***************************************************************************)
(* SpecScheduler: task_mesh_core/src/scheduler.rs, Scheduler with the      *)
(* Priority heuristic.                                                     *)
(*                                                                         *)
(* schedule_task and get_next_task are called in any order, and the state  *)
(* store marks tasks Completed in between.  get_next_task holds the write  *)
(* lock of schedule_queue from its first line to its last and is one step. *)
(* The heap pops an item of greatest priority_score; which one among equal *)
(* scores is the heap's choice.  Parallel edges of the dependency graph    *)
(* are kept once.                                                          *)
(***************************************************************************)
\* The tasks handed to schedule_task.
SchedTasks ==
    {task \in [id : ExecTaskIds, priority : SchedPriorities,
               dependencies : SUBSET ExecTaskIds] : task.id \notin task.dependencies}

\* The resources a caller of get_next_task has: the default ones, or no core.
AvailableResources ==
    {ResourceAllocationDefault,
     [cpu_cores |-> 0, memory_bytes |-> DefaultMemoryBytes]}

\* How many items the heap holds.
RECURSIVE QueueLenOver(_, _)
QueueLenOver(queue, items) ==
    IF items = {} THEN 0
    ELSE LET item == CHOOSE i \in items : TRUE
         IN queue[item] + QueueLenOver(queue, items \ {item})

QueueLen(queue) == QueueLenOver(queue, DOMAIN queue)

Queued(queue) == {item \in DOMAIN queue : queue[item] > 0}

\* Scheduler::calculate_priority_score under SchedulingHeuristic::Priority.
CalculatePriorityScore(task) == task.priority

\* Scheduler::add_to_dependency_graph: an edge from each dependency to the task.
AddToDependencyGraph(graph, task) ==
    graph \cup {<<dep_id, task.id>> : dep_id \in task.dependencies}

\* Scheduler::can_execute_with_resources.
CanExecuteWithResources(item, available_resources) ==
    /\ available_resources.cpu_cores >= item.resource_requirements.cpu_cores
    /\ available_resources.memory_bytes >= item.resource_requirements.memory_bytes

\* Scheduler::dependencies_satisfied: the check of the dependencies' status
\* is not written, the function answers true.
DependenciesSatisfied(task_id) == TRUE

\* Ord for ScheduleItem, as BinaryHeap::pop uses it: y leaves the heap before
\* x whenever its priority_score is greater.
PoppedBeforeMinHeap(y, x) == y.priority_score < x.priority_score

PoppedBefore(y, x) == y.priority_score > x.priority_score

\* The items the loop of get_next_task can stop at: an item that passes both
\* tests, every item popped before it having failed one.
Selectable(queue, available_resources) ==
    LET passes(item) == /\ CanExecuteWithResources(item, available_resources)
                        /\ DependenciesSatisfied(item.task_id)
    IN {x \in Queued(queue) :
          /\ passes(x)
          /\ \A y \in Queued(queue) : PoppedBefore(y, x) => ~passes(y)}

InitScheduler ==
    /\ mesh = TaskMeshNew
    /\ last = Call("new", "Ok")
    /\ InitOrchIdle

\* Scheduler::schedule_task(task).
ScheduleTask(task) ==
    /\ QueueLen(schedule_queue) < MaxQueued
    /\ LET item == [task_id |-> task.id,
                    priority_score |-> CalculatePriorityScore(task),
                    resource_requirements |-> ResourceAllocationDefault]
       IN schedule_queue' = [schedule_queue EXCEPT ![item] = @ + 1]
    /\ dependency_graph' = AddToDependencyGraph(dependency_graph, task)
    /\ UNCHANGED <<meshVars, orchVars, execVars, errVars, backupVars, stopVars,
                   registryVars, coreVars, memVars, next_task>>

\* Scheduler::get_next_task(available_resources) that selects an item: the
\* items popped before it go through temp_queue back into the heap.
GetNextTaskSome(available_resources) ==
    /\ \E item \in Selectable(schedule_queue, available_resources) :
          /\ schedule_queue' = [schedule_queue EXCEPT ![item] = @ - 1]
          /\ next_task' = NextTask("Some", item, available_resources)
    /\ UNCHANGED <<meshVars, orchVars, execVars, errVars, backupVars, stopVars,
                   registryVars, coreVars, memVars, dependency_graph>>

\* Scheduler::get_next_task(available_resources) on an empty heap, or on a
\* heap none of whose items passes: every item comes back from temp_queue.
GetNextTaskNone(available_resources) ==
    /\ Selectable(schedule_queue, available_resources) = {}
    /\ next_task' = NextTask("None", NoScheduleItem, available_resources)
    /\ UNCHANGED <<meshVars, orchVars, execVars, errVars, backupVars, stopVars,
                   registryVars, coreVars, memVars, schedule_queue,
                   dependency_graph>>

\* StateStore::update_task_status(task_id, Completed).
SchedTaskCompleted(task_id) ==
    /\ task_status[task_id] # "Completed"
    /\ task_status' = StoreUpdate(task_status, task_id, "Completed")
    /\ UNCHANGED <<meshVars, orchVars, errVars, backupVars, stopVars,
                   registryVars, coreVars, schedVars, memVars, command_channel,
                   executor_running, available_workers, permits, command_loop,
                   execute_calls, cancel_during_execution, attempts>>

NextScheduler ==
    \/ \E task \in SchedTasks : ScheduleTask(task)
    \/ \E available_resources \in AvailableResources :
          GetNextTaskSome(available_resources)
    \/ \E available_resources \in AvailableResources :
          GetNextTaskNone(available_resources)
    \/ \E task_id \in ExecTaskIds : SchedTaskCompleted(task_id)

SpecScheduler == InitScheduler /\ [][NextScheduler]_vars

(***************************************************************************)
(* SpecMemStore: task_mesh_core/src/state_store.rs, MemoryStateStore.      *)
(*                                                                         *)
(* store_task, remove_task, update_task_status, create_checkpoint and      *)
(* restore_checkpoint are called one after the other, in any order.        *)
(* task_status is what get_task_status answers: the status on record, or   *)
(* Pending when there is none.  A checkpoint is the bincode encoding of    *)
(* the task list; bincode writes any serde value but reads back no         *)
(* serde_json::Value (its deserializer has no deserialize_any), which      *)
(* TaskDefinition::RustFunction carries in args.                           *)
(***************************************************************************)
\* The tasks handed to store_task: a shell command or a Rust function.
MemTasks == [id : ExecTaskIds, definition : {"Command", "RustFunction"}]

MemCheckpointIds == {"c1", "c2"}

\* MemoryStateStore::list_tasks.
ListTasks(tasks) == {tasks[id] : id \in DOMAIN tasks}

\* bincode::serialize of CheckpointData (created_at is never read back).
BincodeSerialize(tasks) == [encoded |-> tasks]

\* Whether bincode::deserialize reads the encoded tasks back.
BincodeReads(data) ==
    \A task \in data.encoded : task.definition # "RustFunction"

\* bincode::deserialize of CheckpointData, where it succeeds.
BincodeDeserialize(data) == data.encoded

\* The loop of store_task calls in restore_checkpoint.
RECURSIVE StoreAll(_, _)
StoreAll(tasks, rest) ==
    IF rest = {} THEN tasks
    ELSE LET task == CHOOSE t \in rest : TRUE
         IN StoreAll(MapInsert(tasks, task.id, task), rest \ {task})

InitMemStore ==
    /\ mesh = TaskMeshNew
    /\ last = Call("new", "Ok")
    /\ InitOrchIdle

\* MemoryStateStore::store_task(task).
MemStoreTask(task) ==
    /\ store_tasks' = MapInsert(store_tasks, task.id, task)
    /\ store_call' = StoreCall("store_task", task.id, "", "Ok")
    /\ UNCHANGED <<meshVars, orchVars, execVars, errVars, backupVars, stopVars,
                   registryVars, coreVars, schedVars, store_checkpoints>>

\* MemoryStateStore::remove_task(task_id): the task and its status go.
MemRemoveTask(task_id) ==
    /\ store_tasks' = MapRemove(store_tasks, task_id)
    /\ task_status' = StoreUpdate(task_status, task_id, "Pending")
    /\ store_call' = StoreCall("remove_task", task_id, "", "Ok")
    /\ UNCHANGED <<meshVars, orchVars, errVars, backupVars, stopVars,
                   registryVars, coreVars, schedVars, store_checkpoints,
                   command_channel, executor_running, available_workers, permits,
                   command_loop, execute_calls, cancel_during_execution, attempts>>

\* MemoryStateStore::update_task_status(task_id, Running).
MemUpdateTaskStatus(task_id) ==
    /\ task_status' = StoreUpdate(task_status, task_id, "Running")
    /\ store_call' = StoreCall("update_task_status", task_id, "", "Ok")
    /\ UNCHANGED <<meshVars, orchVars, errVars, backupVars, stopVars,
                   registryVars, coreVars, schedVars, store_tasks,
                   store_checkpoints, command_channel, executor_running,
                   available_workers, permits, command_loop, execute_calls,
                   cancel_during_execution, attempts>>

\* MemoryStateStore::create_checkpoint(checkpoint_id).
MemCreateCheckpoint(checkpoint_id) ==
    /\ store_checkpoints' =
          MapInsert(store_checkpoints, checkpoint_id,
                    BincodeSerialize(ListTasks(store_tasks)))
    /\ store_call' = StoreCall("create_checkpoint", 0, checkpoint_id, "Ok")
    /\ UNCHANGED <<meshVars, orchVars, execVars, errVars, backupVars, stopVars,
                   registryVars, coreVars, schedVars, store_tasks>>

\* MemoryStateStore::restore_checkpoint(checkpoint_id) of a checkpoint that
\* is read back: tasks and task_status are cleared, the tasks stored again.
MemRestoreCheckpoint(checkpoint_id) ==
    /\ checkpoint_id \in DOMAIN store_checkpoints
    /\ BincodeReads(store_checkpoints[checkpoint_id])
    /\ store_tasks' =
          StoreAll(EmptyMap, BincodeDeserialize(store_checkpoints[checkpoint_id]))
    /\ task_status' = [task_id \in DOMAIN task_status |-> "Pending"]
    /\ store_call' = StoreCall("restore_checkpoint", 0, checkpoint_id, "Ok")
    /\ UNCHANGED <<meshVars, orchVars, errVars, backupVars, stopVars,
                   registryVars, coreVars, schedVars, store_checkpoints,
                   command_channel, executor_running, available_workers, permits,
                   command_loop, execute_calls, cancel_during_execution, attempts>>

\* MemoryStateStore::restore_checkpoint(checkpoint_id) of a checkpoint that
\* is not read back: the map_err returns Internal before anything is cleared.
MemRestoreCheckpointUnread(checkpoint_id) ==
    /\ checkpoint_id \in DOMAIN store_checkpoints
    /\ ~BincodeReads(store_checkpoints[checkpoint_id])
    /\ store_call' = StoreCall("restore_checkpoint", 0, checkpoint_id, "Internal")
    /\ UNCHANGED <<meshVars, orchVars, execVars, errVars, backupVars, stopVars,
                   registryVars, coreVars, schedVars, store_tasks,
                   store_checkpoints>>

\* MemoryStateStore::restore_checkpoint(checkpoint_id) of an id that no
\* checkpoint is under.
MemRestoreCheckpointNotFound(checkpoint_id) ==
    /\ checkpoint_id \notin DOMAIN store_checkpoints
    /\ store_call' =
          StoreCall("restore_checkpoint", 0, checkpoint_id, "CheckpointNotFound")
    /\ UNCHANGED <<meshVars, orchVars, execVars, errVars, backupVars, stopVars,
                   registryVars, coreVars, schedVars, store_tasks,
                   store_checkpoints>>

NextMemStore ==
    \/ \E task \in MemTasks : MemStoreTask(task)
    \/ \E task_id \in ExecTaskIds : MemRemoveTask(task_id)
    \/ \E task_id \in ExecTaskIds : MemUpdateTaskStatus(task_id)
    \/ \E checkpoint_id \in MemCheckpointIds : MemCreateCheckpoint(checkpoint_id)
    \/ \E checkpoint_id \in MemCheckpointIds : MemRestoreCheckpoint(checkpoint_id)
    \/ \E checkpoint_id \in MemCheckpointIds :
          MemRestoreCheckpointUnread(checkpoint_id)
    \/ \E checkpoint_id \in MemCheckpointIds :
          MemRestoreCheckpointNotFound(checkpoint_id)

SpecMemStore == InitMemStore /\ [][NextMemStore]_vars

(***************************************************************************)
(* SpecBreaker: orchestrator_core/src/errors.rs, CircuitBreaker.           *)
(*                                                                         *)
(* NumCallers tasks call CircuitBreaker::call concurrently.  The state     *)
(* check at the head of call runs under the state write lock and is one    *)
(* step; the operation then runs with no lock held; the operation's return *)
(* and the record_success / record_failure that follows it are one step.   *)
(* The clock is in units of which timeout_duration is TimeoutDuration.     *)
(***************************************************************************)
InitBreaker ==
    /\ mesh = TaskMeshNew
    /\ last = Call("new", "Ok")
    /\ InitOrchIdle

\* call, lines 639-640: more than timeout_duration has passed since opened_at.
TimeoutElapsedInclusive(opened_at) == now - opened_at >= TimeoutDuration

TimeoutElapsed(opened_at) == now - opened_at > TimeoutDuration

\* call, lines 636-686: whether the state check lets the call through.
Admits(state) ==
    CASE state.kind = "Open" -> TimeoutElapsed(state.opened_at)
      [] state.kind = "HalfOpen" -> ~state.test_request_sent
      [] OTHER -> TRUE

\* call, lines 636-686: the state the check leaves behind when it lets the
\* call through.
StateAfterCheck(state) ==
    CASE state.kind = "Open" -> HalfOpen(state.opened_at, FALSE)
      [] state.kind = "HalfOpen" -> HalfOpen(state.opened_at, TRUE)
      [] OTHER -> state

\* call: the state check lets the call through; current_state is the clone
\* of the state taken at the end of the check; the operation starts.
CallAdmitted(c) ==
    /\ calls[c].pc = "idle"
    /\ Admits(cb_state)
    /\ cb_state' = StateAfterCheck(cb_state)
    /\ calls' = [calls EXCEPT ![c] =
                    [pc |-> "operation", current_state |-> cb_state'.kind,
                     result |-> "none"]]
    /\ UNCHANGED <<meshVars, orchVars, execVars, backupVars, stopVars, registryVars, coreVars, schedVars, memVars, now, cb_failed_calls,
                   consecutive_failures, retry>>

\* call: the state check returns ExternalServiceError ("Circuit breaker is
\* open" / "half-open with test request pending"); the operation is not run.
CallRejected(c) ==
    /\ calls[c].pc = "idle"
    /\ ~Admits(cb_state)
    /\ calls' = [calls EXCEPT ![c] = CallerIdle("ExternalServiceError")]
    /\ UNCHANGED <<meshVars, orchVars, execVars, backupVars, stopVars, registryVars, coreVars, schedVars, memVars, now, cb_state, cb_failed_calls,
                   consecutive_failures, retry>>

\* record_success: a HalfOpen breaker closes; nothing else changes the state.
RecordSuccess(state) == IF state.kind = "HalfOpen" THEN Closed ELSE state

\* record_failure with failed_calls already incremented: a Closed breaker
\* opens at the threshold, a HalfOpen breaker reopens keeping its opened_at.
RecordFailure(state, failed_calls) ==
    CASE state.kind = "Closed" ->
            IF failed_calls >= FailureThreshold
            THEN Open(now, failed_calls) ELSE state
      [] state.kind = "HalfOpen" -> Open(state.opened_at, failed_calls)
      [] OTHER -> state

\* call, lines 695-698: the operation returns Ok, record_success runs, the
\* call returns Ok.
OperationSucceeds(c) ==
    /\ calls[c].pc = "operation"
    /\ cb_state' = RecordSuccess(cb_state)
    /\ consecutive_failures' = 0
    /\ calls' = [calls EXCEPT ![c] = CallerIdle("Ok")]
    /\ UNCHANGED <<meshVars, orchVars, execVars, backupVars, stopVars, registryVars, coreVars, schedVars, memVars, now, cb_failed_calls, retry>>

\* call, lines 699-702: the operation returns Err, record_failure runs, the
\* call returns that error.
OperationFails(c) ==
    /\ calls[c].pc = "operation"
    /\ cb_failed_calls < MaxFailedCalls
    /\ cb_failed_calls' = cb_failed_calls + 1
    /\ cb_state' = RecordFailure(cb_state, cb_failed_calls')
    /\ consecutive_failures' = consecutive_failures + 1
    /\ calls' = [calls EXCEPT ![c] = CallerIdle("Err")]
    /\ UNCHANGED <<meshVars, orchVars, execVars, backupVars, stopVars, registryVars, coreVars, schedVars, memVars, now, retry>>

\* One unit of time passes.
BreakerTick ==
    /\ now < MaxTime
    /\ now' = now + 1
    /\ UNCHANGED <<meshVars, orchVars, execVars, backupVars, stopVars, registryVars, coreVars, schedVars, memVars, cb_state, cb_failed_calls, calls,
                   consecutive_failures, retry>>

NextBreaker ==
    \/ \E c \in Callers : CallAdmitted(c)
    \/ \E c \in Callers : CallRejected(c)
    \/ \E c \in Callers : OperationSucceeds(c)
    \/ \E c \in Callers : OperationFails(c)
    \/ BreakerTick

SpecBreaker == InitBreaker /\ [][NextBreaker]_vars

(***************************************************************************)
(* SpecRetry: orchestrator_core/src/errors.rs, RetryInfo and               *)
(* RetryManager::retry_with_backoff.                                       *)
(*                                                                         *)
(* One call of retry_with_backoff on a RetryManager::new(max_attempts).    *)
(* The operation's outcome at its i-th invocation is outcomes[i], chosen   *)
(* by the caller; how long each invocation takes is chosen step by step.   *)
(* The clock is in milliseconds.                                           *)
(***************************************************************************)
InitRetry ==
    /\ mesh = TaskMeshNew
    /\ last = Call("new", "Ok")
    /\ InitOrchIdle

\* What one invocation of the operation returns: Ok, or one of two
\* OrchestratorError variants.
OperationOutcomes == {"Ok", "NetworkError", "InternalError"}

\* OrchestratorError::is_recoverable, for the variants the operation returns.
IsRecoverable(err) ==
    CASE err = "NetworkError" -> TRUE
      [] err = "InternalError" -> FALSE

\* fastrand::f64() * jitter_factor - jitter_factor / 2, in per cent: the
\* jitter lies in [-5 %, +5 %).
JitterPercents == {0 - 5, 0, 4}

RECURSIVE Pow2(_)
\* exponential_base.powi(n) with exponential_base = 2.0
Pow2(n) == IF n = 0 THEN 1 ELSE 2 * Pow2(n - 1)

\* record_attempt: base_delay in ms for the attempt just counted.
BaseDelay(attempt) == 100 * Pow2(attempt - 1)

\* record_attempt: backoff_duration in ms, base_delay * jitter_factor
\* truncated to whole milliseconds.
BackoffDuration(attempt, jitter) ==
    (BaseDelay(attempt) * (100 + jitter)) \div 100

\* RetryInfo::should_retry
ShouldRetryInclusive(info) ==
    info.attempt <= info.max_attempts /\ now >= info.next_retry_at

ShouldRetry(info) ==
    info.attempt < info.max_attempts /\ now >= info.next_retry_at

\* retry_with_backoff, line 549: the condition under which an Err ends the
\* loop.
GivesUpOnlyIfBoth(err, info) == ~IsRecoverable(err) /\ ~ShouldRetry(info)

GivesUp(err, info) == ~IsRecoverable(err) \/ ~ShouldRetry(info)

\* retry_with_backoff is called on RetryManager::new(max_attempts) with an
\* operation that returns outcomes[i] at its i-th invocation; RetryInfo::new.
RetryStart(max_attempts, outcomes) ==
    /\ retry.pc = "idle"
    /\ retry' = [pc |-> "loop", max_attempts |-> max_attempts,
                 outcomes |-> outcomes, attempt |-> 0, backoff_duration |-> 100,
                 next_retry_at |-> now, invocations |-> 0, result |-> "none"]
    /\ UNCHANGED <<meshVars, orchVars, execVars, backupVars, stopVars, registryVars, coreVars, schedVars, memVars, now, cb_state, cb_failed_calls,
                   calls, consecutive_failures>>

\* The head of the loop: record_attempt, then the operation is invoked.
RecordAttempt(jitter) ==
    /\ retry.pc = "loop"
    /\ retry' = [retry EXCEPT
                    !.pc = "operation",
                    !.attempt = @ + 1,
                    !.backoff_duration = BackoffDuration(retry.attempt + 1, jitter),
                    !.next_retry_at =
                        now + BackoffDuration(retry.attempt + 1, jitter),
                    !.invocations = @ + 1]
    /\ UNCHANGED <<meshVars, orchVars, execVars, backupVars, stopVars, registryVars, coreVars, schedVars, memVars, now, cb_state, cb_failed_calls,
                   calls, consecutive_failures>>

\* Time passes while the operation runs.  Beyond next_retry_at more time
\* changes nothing that the loop reads.
OperationRuns ==
    /\ retry.pc = "operation"
    /\ now < retry.next_retry_at
    /\ now' = now + OperationTimeStep
    /\ UNCHANGED <<meshVars, orchVars, execVars, backupVars, stopVars, registryVars, coreVars, schedVars, memVars, cb_state, cb_failed_calls, calls,
                   consecutive_failures, retry>>

\* The operation returns Ok: retry_with_backoff returns Ok.
OperationReturnsOk ==
    /\ retry.pc = "operation"
    /\ retry.outcomes[retry.invocations] = "Ok"
    /\ retry' = [retry EXCEPT !.pc = "done", !.result = "Ok"]
    /\ UNCHANGED <<meshVars, orchVars, execVars, backupVars, stopVars, registryVars, coreVars, schedVars, memVars, now, cb_state, cb_failed_calls,
                   calls, consecutive_failures>>

\* The operation returns Err: retry_with_backoff returns RuntimeError when
\* the error is not recoverable or should_retry() is false, and otherwise
\* goes on to sleep.
OperationReturnsErr ==
    /\ retry.pc = "operation"
    /\ retry.outcomes[retry.invocations] # "Ok"
    /\ retry' = IF GivesUp(retry.outcomes[retry.invocations], retry)
                THEN [retry EXCEPT !.pc = "done", !.result = "RuntimeError"]
                ELSE [retry EXCEPT !.pc = "sleep"]
    /\ UNCHANGED <<meshVars, orchVars, execVars, backupVars, stopVars, registryVars, coreVars, schedVars, memVars, now, cb_state, cb_failed_calls,
                   calls, consecutive_failures>>

\* tokio::time::sleep(backoff_duration), then the loop starts over.
RetrySleep ==
    /\ retry.pc = "sleep"
    /\ now' = now + retry.backoff_duration
    /\ retry' = [retry EXCEPT !.pc = "loop"]
    /\ UNCHANGED <<meshVars, orchVars, execVars, backupVars, stopVars, registryVars, coreVars, schedVars, memVars, cb_state, cb_failed_calls, calls,
                   consecutive_failures>>

NextRetry ==
    \/ \E max_attempts \in 0..MaxRetryAttempts :
          \E outcomes \in [1..(MaxRetryAttempts + 1) -> OperationOutcomes] :
             RetryStart(max_attempts, outcomes)
    \/ \E jitter \in JitterPercents : RecordAttempt(jitter)
    \/ OperationRuns
    \/ OperationReturnsOk
    \/ OperationReturnsErr
    \/ RetrySleep

SpecRetry == InitRetry /\ [][NextRetry]_vars

\* The operation always returns, and the task running retry_with_backoff
\* is always scheduled again (record_attempt and the sleep complete).
FairRetry ==
    /\ WF_vars(\E jitter \in JitterPercents : RecordAttempt(jitter))
    /\ WF_vars(OperationReturnsOk)
    /\ WF_vars(OperationReturnsErr)
    /\ WF_vars(RetrySleep)

SpecRetryFair == InitRetry /\ [][NextRetry]_vars /\ FairRetry

(***************************************************************************)
(* Properties of the task mesh.                                            *)
(***************************************************************************)
\* Nodes left after repeatedly removing every node without an incoming edge
\* from the nodes still left (Kahn's peeling).
RECURSIVE Peel(_, _)
Peel(left, edges) ==
    LET fed == {edges[i].to : i \in {j \in 1..Len(edges) : edges[j].from \in left}}
        sources == left \ fed
    IN IF sources = {} THEN left ELSE Peel(left \ sources, edges)

HasTopologicalOrder(m) == Peel(1..Len(m.nodes), m.edges) = {}

\* Nodes with a Hard edge into the node of task id.
HardPredecessors(m, id) ==
    {m.edges[i].from : i \in {j \in 1..Len(m.edges) :
        /\ m.edges[j].to = m.task_index[id]
        /\ m.edges[j].weight.dependency_type = "Hard"}}

\* C1: after any sequence of add_task and add_dependency calls, successful or
\* failed, self-edges and duplicate edges included, the dependency graph of
\* the mesh is acyclic (it has a topological order).
C1_Acyclic == HasTopologicalOrder(mesh)

\* An add_dependency was just rejected as cyclic on a mesh holding two edges.
C1_Witness ==
    /\ last = Call("add_dependency", "CyclicDependency")
    /\ Len(mesh.edges) >= 2

\* C2: an add_dependency that returns CyclicDependency or TaskNotFound leaves
\* the mesh unchanged: same tasks, same edges, same task_index and edge_index.
C2_RejectedLeavesMeshUnchanged ==
    [][(/\ last'.op = "add_dependency"
        /\ last'.tag \in {"CyclicDependency", "TaskNotFound"}) => mesh' = mesh]_vars

\* C3: can_execute_task(t) holds only if every Hard predecessor of t is
\* Completed, and get_ready_tasks lists only such tasks.
C3_ReadyOnlyIfHardPredecessorsCompleted ==
    /\ \A id \in DOMAIN mesh.task_index :
          MeshCanExecuteTask(mesh, id) =>
             \A p \in HardPredecessors(mesh, id) : mesh.nodes[p].status = "Completed"
    /\ LET ready == MeshGetReadyTasks(mesh)
       IN \A k \in 1..Len(ready) :
             \A p \in HardPredecessors(mesh, mesh.nodes[ready[k]].id) :
                mesh.nodes[p].status = "Completed"

\* C4: only Hard edges take part in readiness: a Pending task all of whose
\* Hard predecessors are Completed is reported ready by can_execute_task,
\* whatever the status of its Soft, Resource and Data predecessors.
C4_OnlyHardEdgesBlock ==
    \A id \in DOMAIN mesh.task_index :
       (/\ MeshGetTask(mesh, id).status = "Pending"
        /\ \A p \in HardPredecessors(mesh, id) : mesh.nodes[p].status = "Completed")
          => MeshCanExecuteTask(mesh, id)

(***************************************************************************)
(* Properties of the orchestrator.                                         *)
(***************************************************************************)
HardPredecessorsCompleted(m, id) ==
    \A p \in HardPredecessors(m, id) : m.nodes[p].status = "Completed"

C6_EveryTaskCompletes ==
    \A id \in OrchTaskIds :
       [](MeshHasTask(mesh, id) /\ orch_status = "Running"
             => <>(MeshHasTask(mesh, id) /\ MeshGetTask(mesh, id).status = "Completed"))

(***************************************************************************)
(* Properties of the executor.                                             *)
(***************************************************************************)
\* C7: at every instant the number of tasks whose stored status is Running
\* is at most max_workers.
C7_RunningAtMostMaxWorkers ==
    Cardinality({id \in ExecTaskIds : task_status[id] = "Running"}) <= MaxWorkers

\* C8: whenever the command loop is not inside handle_execute_task, every
\* permit has been released and every worker is back in the pool.
C8_PermitAndWorkerReleased ==
    command_loop.pc \in {"unstarted", "recv", "stopped"} =>
       /\ permits = MaxWorkers
       /\ Len(available_workers) = MaxWorkers

\* C9: an execution during which cancel_task was called for its task does not
\* return before its cancel token has been tripped.
C9_CancelTripsTokenWhileRunning ==
    [][(/\ command_loop.pc = "executing"
        /\ command_loop'.pc = "result"
        /\ cancel_during_execution) => command_loop.token = "cancelled"]_vars

\* C10: the handler of an execution that was interrupted by its cancel token
\* never stores Failed or Completed for the task.
C10_InterruptedNeverFailedOrCompleted ==
    [][(/\ command_loop.pc = "result"
        /\ command_loop.result = "Interrupted"
        /\ command_loop'.pc = "recv")
          => task_status'[command_loop.task_id] \notin {"Failed", "Completed"}]_vars

\* The command loop takes CancelTask(id) off the channel and handles it.
HandlesCancelOf(id) ==
    /\ Received("CancelTask")
    /\ Head(command_channel).task_id = id
    /\ command_channel' = Tail(command_channel)

C12_TerminalStatusAbsorbing ==
    [][\A id \in ExecTaskIds :
          task_status[id] \in {"Completed", "Cancelled"}
             => task_status'[id] = task_status[id]]_vars

\* C13: a task whose first execution fails with a recoverable error
\* (ExecutionTimeout, a retry condition of the default RetryPolicy) while its
\* retry budget max_retries is not used up is not left in Failed by the
\* handler.
C13_RecoverableFailureIsRearmed ==
    [][(/\ command_loop.pc = "result"
        /\ command_loop.result = "Timeout"
        /\ command_loop'.pc = "recv"
        /\ attempts[command_loop.task_id] = 1
        /\ TaskMaxRetries >= 1)
          => task_status'[command_loop.task_id] # "Failed"]_vars

(***************************************************************************)
(* SpecCheckpoint, SpecBackup: orchestrator_core/src/backup.rs,            *)
(* BackupSystem.                                                           *)
(*                                                                         *)
(* NumBackupCallers tasks call the BackupSystem concurrently; each await   *)
(* on the database or on the object store is a step of its own.  Every     *)
(* reading of Utc::now() returns a later time than the one before, so      *)
(* timestamps are distinct.  SpecCheckpoint has on_task_completed only;    *)
(* SpecBackup adds create_snapshot, restore_latest_checkpoint and a        *)
(* restart of the process followed by auto_restore_on_boot.                *)
(*                                                                         *)
(* backup.rs uses TaskMesh::clone and the serde encoding of TaskMesh,      *)
(* which graph.rs does not define; a snapshot holds the mesh it was given  *)
(* field by field.                                                         *)
(***************************************************************************)
InitBackup ==
    /\ mesh = TaskMeshNew
    /\ last = Call("new", "Ok")
    /\ InitOrchIdle

\* What the backup actions leave alone outside the BackupSystem.
notBackupVars ==
    <<mesh, last, orchVars, execVars, cb_state, cb_failed_calls, calls,
      consecutive_failures, retry, stopVars, registryVars, coreVars, schedVars, memVars>>

\* The task ids on_task_completed is called with.
BackupTaskIds == {1, 2}

\* on_task_completed: fetch_add returns the previous value.
CurrentCountStale(previous) == previous

CurrentCount(previous) == previous + 1

\* on_task_completed, line 558
TriggersCheckpoint(current_count) == current_count % TasksPerCheckpoint = 0

\* ORDER BY timestamp DESC LIMIT 1 over a table: the row with the greatest
\* timestamp, none when the table is empty.
LatestRow(rows, none) ==
    IF rows = <<>> THEN none
    ELSE CHOOSE r \in {rows[i] : i \in 1..Len(rows)} :
            \A i \in 1..Len(rows) : rows[i].timestamp <= r.timestamp

\* on_task_completed up to its test: the counter is incremented atomically;
\* the call returns None unless the new count is a multiple of
\* tasks_per_checkpoint, and otherwise goes on to create_checkpoint.
OnTaskCompleted(c, task_id) ==
    /\ backup_calls[c].pc = "idle"
    /\ completed_tasks_count < MaxCompleted
    /\ completed_tasks_count' = completed_tasks_count + 1
    /\ backup_calls' = [backup_calls EXCEPT ![c] =
          IF TriggersCheckpoint(CurrentCount(completed_tasks_count))
          THEN [BackupIdle(NoResult) EXCEPT
                   !.pc = "create_checkpoint", !.op = "on_task_completed",
                   !.task_count = CurrentCount(completed_tasks_count),
                   !.trigger = task_id]
          ELSE BackupIdle([NoResult EXCEPT !.tag = "None"])]
    /\ UNCHANGED <<notBackupVars, now, checkpoints, snapshot_metadata, minio,
                   last_snapshot, refused_checkpoints, retention_dropped,
                   snapshots_created>>

\* create_checkpoint, lines 492-493: the checkpoint's timestamp is read.
CreateCheckpointStamp(c) ==
    /\ backup_calls[c].pc = "create_checkpoint"
    /\ now < MaxStamps
    /\ now' = now + 1
    /\ backup_calls' = [backup_calls EXCEPT ![c].pc = "insert_checkpoint",
                                            ![c].timestamp = now']
    /\ UNCHANGED <<notBackupVars, completed_tasks_count, checkpoints,
                   snapshot_metadata, minio, last_snapshot, refused_checkpoints,
                   retention_dropped, snapshots_created>>

\* The LocalCheckpoint a caller inside create_checkpoint has built.
CheckpointOf(call) ==
    [timestamp |-> call.timestamp, task_count |-> call.task_count,
     last_completed_task |-> call.trigger]

\* create_checkpoint, lines 512-549: the row is inserted and the call
\* returns the checkpoint.
CreateCheckpointInsert(c) ==
    /\ backup_calls[c].pc = "insert_checkpoint"
    /\ checkpoints' = Append(checkpoints, CheckpointOf(backup_calls[c]))
    /\ backup_calls' = [backup_calls EXCEPT ![c] =
          BackupIdle([NoResult EXCEPT !.tag = "Some",
                                      !.checkpoint = CheckpointOf(backup_calls[c])])]
    /\ UNCHANGED <<notBackupVars, now, completed_tasks_count, snapshot_metadata,
                   minio, last_snapshot, refused_checkpoints, retention_dropped,
                   snapshots_created>>

\* create_checkpoint, line 528: the insert fails and the call returns the
\* BackupError.
CreateCheckpointFails(c) ==
    /\ backup_calls[c].pc = "insert_checkpoint"
    /\ refused_checkpoints' = refused_checkpoints \cup {backup_calls[c].task_count}
    /\ backup_calls' = [backup_calls EXCEPT ![c] =
          BackupIdle([NoResult EXCEPT !.tag = "Err"])]
    /\ UNCHANGED <<notBackupVars, now, completed_tasks_count, checkpoints,
                   snapshot_metadata, minio, last_snapshot, retention_dropped,
                   snapshots_created>>

NextCheckpoint ==
    \/ \E c \in BackupCallers : \E task_id \in BackupTaskIds :
          OnTaskCompleted(c, task_id)
    \/ \E c \in BackupCallers : CreateCheckpointStamp(c)
    \/ \E c \in BackupCallers : CreateCheckpointInsert(c)
    \/ \E c \in BackupCallers : CreateCheckpointFails(c)

SpecCheckpoint == InitBackup /\ [][NextCheckpoint]_vars

\* The meshes create_snapshot is called with: an empty one, and one whose
\* only task is Completed.
SnapshotGraphs ==
    {TaskMeshNew,
     MeshUpdateStatus(MeshAddTask(TaskMeshNew, TaskNodeNew(1)), 1, "Completed")}

\* Mutation of the restore: the counter is left as it is.
CounterAfterRestoreKept(checkpoint) == completed_tasks_count

\* restore_latest_checkpoint, line 785: the counter is set to the restored
\* checkpoint's task_count; it is left alone when there is no checkpoint.
CounterAfterRestore(checkpoint) ==
    IF checkpoint = NoCheckpoint THEN completed_tasks_count
    ELSE checkpoint.task_count

\* restore_latest_checkpoint called on its own.
RestoreLatestCheckpoint(c) ==
    /\ backup_calls[c].pc = "idle"
    /\ completed_tasks_count' =
          CounterAfterRestore(LatestRow(checkpoints, NoCheckpoint))
    /\ backup_calls' = [backup_calls EXCEPT ![c] =
          BackupIdle([NoResult EXCEPT
                         !.tag = "Checkpoint",
                         !.checkpoint = LatestRow(checkpoints, NoCheckpoint)])]
    /\ UNCHANGED <<notBackupVars, now, checkpoints, snapshot_metadata, minio,
                   last_snapshot, refused_checkpoints, retention_dropped,
                   snapshots_created>>

\* create_snapshot, lines 283-301: the timestamp is read and the snapshot is
\* built from the mesh the caller passed.
CreateSnapshotStamp(c, task_graph) ==
    /\ backup_calls[c].pc = "idle"
    /\ now < MaxStamps
    /\ now' = now + 1
    /\ backup_calls' = [backup_calls EXCEPT ![c] =
          [BackupIdle(NoResult) EXCEPT
              !.pc = "upload", !.op = "create_snapshot", !.timestamp = now',
              !.task_graph = task_graph]]
    /\ UNCHANGED <<notBackupVars, completed_tasks_count, checkpoints,
                   snapshot_metadata, minio, last_snapshot, refused_checkpoints,
                   retention_dropped, snapshots_created>>

\* The TaskGraphSnapshot a caller inside create_snapshot has built.
SnapshotOf(call) == [timestamp |-> call.timestamp, task_graph |-> call.task_graph]

\* create_snapshot, line 320: the payload is put in the bucket; the key is
\* made of the timestamp and the snapshot id.
UploadToMinio(c) ==
    /\ backup_calls[c].pc = "upload"
    /\ minio' = minio \cup {[key |-> backup_calls[c].timestamp,
                              body |-> SnapshotOf(backup_calls[c])]}
    /\ backup_calls' = [backup_calls EXCEPT ![c].pc = "save_metadata"]
    /\ UNCHANGED <<notBackupVars, now, completed_tasks_count, checkpoints,
                   snapshot_metadata, last_snapshot, refused_checkpoints,
                   retention_dropped, snapshots_created>>

\* create_snapshot, line 320: put_object fails, the call returns the error.
UploadFails(c) ==
    /\ backup_calls[c].pc = "upload"
    /\ backup_calls' = [backup_calls EXCEPT ![c] =
          BackupIdle([NoResult EXCEPT !.tag = "Err"])]
    /\ UNCHANGED <<notBackupVars, now, completed_tasks_count, checkpoints,
                   snapshot_metadata, minio, last_snapshot, refused_checkpoints,
                   retention_dropped, snapshots_created>>

\* Mutation of the failing insert: the row is written all the same.
SaveSnapshotMetadataFailsAfterInsert(c) ==
    /\ backup_calls[c].pc = "save_metadata"
    /\ snapshot_metadata' =
          Append(snapshot_metadata,
                 [timestamp |-> backup_calls[c].timestamp,
                  minio_key |-> backup_calls[c].timestamp])
    /\ backup_calls' = [backup_calls EXCEPT ![c] =
          BackupIdle([NoResult EXCEPT !.tag = "Err"])]
    /\ UNCHANGED <<notBackupVars, now, completed_tasks_count, checkpoints,
                   minio, last_snapshot, refused_checkpoints, retention_dropped,
                   snapshots_created>>

\* create_snapshot, line 323: the metadata insert fails, the call returns
\* the error; the payload uploaded before stays in the bucket.
SaveSnapshotMetadataFails(c) ==
    /\ backup_calls[c].pc = "save_metadata"
    /\ backup_calls' = [backup_calls EXCEPT ![c] =
          BackupIdle([NoResult EXCEPT !.tag = "Err"])]
    /\ UNCHANGED <<notBackupVars, now, completed_tasks_count, checkpoints,
                   snapshot_metadata, minio, last_snapshot, refused_checkpoints,
                   retention_dropped, snapshots_created>>

\* create_snapshot, lines 323-326: the metadata row is inserted and
\* last_snapshot is set.
SaveSnapshotMetadata(c) ==
    /\ backup_calls[c].pc = "save_metadata"
    /\ snapshot_metadata' =
          Append(snapshot_metadata,
                 [timestamp |-> backup_calls[c].timestamp,
                  minio_key |-> backup_calls[c].timestamp])
    /\ last_snapshot' = backup_calls[c].timestamp
    /\ backup_calls' = [backup_calls EXCEPT ![c].pc = "cleanup"]
    /\ UNCHANGED <<notBackupVars, now, completed_tasks_count, checkpoints,
                   minio, refused_checkpoints, retention_dropped,
                   snapshots_created>>

\* cleanup_old_snapshots, lines 619-626: ORDER BY timestamp DESC LIMIT -1
\* OFFSET max_snapshots: the rows that have max_snapshots or more rows with
\* a later timestamp.
OldSnapshots(rows) ==
    {i \in 1..Len(rows) :
        Cardinality({j \in 1..Len(rows) : rows[j].timestamp > rows[i].timestamp})
           >= MaxSnapshots}

RECURSIVE WithoutRows(_, _, _)
\* The table without the rows at the indexes in gone (from index i on).
WithoutRows(rows, gone, i) ==
    IF i > Len(rows) THEN <<>>
    ELSE (IF i \in gone THEN <<>> ELSE <<rows[i]>>) \o WithoutRows(rows, gone, i + 1)

\* create_snapshot, lines 347-349 with cleanup_old_snapshots: for each old
\* row the payload is deleted from the bucket (a failure is only logged)
\* and the metadata row is deleted; the call returns the snapshot.
CleanupOldSnapshots(c, delete_ok) ==
    /\ backup_calls[c].pc = "cleanup"
    /\ LET old == OldSnapshots(snapshot_metadata)
           keys == {snapshot_metadata[i].minio_key : i \in old}
       IN /\ minio' = IF delete_ok THEN {o \in minio : o.key \notin keys}
                                   ELSE minio
          /\ snapshot_metadata' = WithoutRows(snapshot_metadata, old, 1)
          /\ retention_dropped' = retention_dropped \cup keys
    /\ snapshots_created' = snapshots_created + 1
    /\ backup_calls' = [backup_calls EXCEPT ![c] =
          BackupIdle([NoResult EXCEPT !.tag = "Snapshot",
                                      !.snapshot = SnapshotOf(backup_calls[c])])]
    /\ UNCHANGED <<notBackupVars, now, completed_tasks_count, checkpoints,
                   last_snapshot, refused_checkpoints>>

\* The process is restarted while no call is in progress: BackupSystem::new
\* over the same database and bucket, then auto_restore_on_boot is called.
Boot(c) ==
    /\ \A d \in BackupCallers : backup_calls[d].pc = "idle"
    /\ completed_tasks_count' = 0
    /\ last_snapshot' = 0
    /\ backup_calls' = [d \in BackupCallers |->
          IF d = c
          THEN [BackupIdle(NoResult) EXCEPT !.pc = "restore_snapshot",
                                            !.op = "boot"]
          ELSE BackupIdle(NoResult)]
    /\ UNCHANGED <<notBackupVars, now, checkpoints, snapshot_metadata, minio,
                   refused_checkpoints, retention_dropped, snapshots_created>>

\* auto_restore_on_boot is called again by the caller that booted.
AutoRestoreAgain(c) ==
    /\ backup_calls[c].pc = "idle"
    /\ backup_calls[c].result.tag = "Restored"
    /\ backup_calls' = [backup_calls EXCEPT ![c].pc = "restore_snapshot",
                                            ![c].op = "again"]
    /\ UNCHANGED <<notBackupVars, now, completed_tasks_count, checkpoints,
                   snapshot_metadata, minio, last_snapshot, refused_checkpoints,
                   retention_dropped, snapshots_created>>

\* restore_latest_snapshot: the payload named by the metadata row with the
\* greatest timestamp; None when there is no row, and (in
\* auto_restore_on_boot) when the payload is not in the bucket.
LatestSnapshot ==
    IF snapshot_metadata = <<>> THEN NoSnapshot
    ELSE LET row == LatestRow(snapshot_metadata, [timestamp |-> 0, minio_key |-> 0])
             found == {o \in minio : o.key = row.minio_key}
         IN IF found = {} THEN NoSnapshot ELSE (CHOOSE o \in found : TRUE).body

\* auto_restore_on_boot, lines 803-807
AutoRestoreSnapshot(c) ==
    /\ backup_calls[c].pc = "restore_snapshot"
    /\ backup_calls' = [backup_calls EXCEPT ![c].pc = "restore_checkpoint",
                                            ![c].snapshot = LatestSnapshot]
    /\ UNCHANGED <<notBackupVars, now, completed_tasks_count, checkpoints,
                   snapshot_metadata, minio, last_snapshot, refused_checkpoints,
                   retention_dropped, snapshots_created>>

\* auto_restore_on_boot, lines 809-830: restore_latest_checkpoint, then the
\* pair is returned.  The result keeps whether this was the call made at
\* boot or the one after it.
AutoRestoreCheckpoint(c) ==
    /\ backup_calls[c].pc = "restore_checkpoint"
    /\ completed_tasks_count' =
          CounterAfterRestore(LatestRow(checkpoints, NoCheckpoint))
    /\ backup_calls' = [backup_calls EXCEPT ![c] =
          [BackupIdle([tag |-> "Restored",
                       snapshot |-> backup_calls[c].snapshot,
                       checkpoint |-> LatestRow(checkpoints, NoCheckpoint)])
             EXCEPT !.op = backup_calls[c].op]]
    /\ UNCHANGED <<notBackupVars, now, checkpoints, snapshot_metadata, minio,
                   last_snapshot, refused_checkpoints, retention_dropped,
                   snapshots_created>>

NextBackup ==
    \/ \E c \in BackupCallers : \E task_id \in BackupTaskIds :
          OnTaskCompleted(c, task_id)
    \/ \E c \in BackupCallers : CreateCheckpointStamp(c)
    \/ \E c \in BackupCallers : CreateCheckpointInsert(c)
    \/ \E c \in BackupCallers : CreateCheckpointFails(c)
    \/ \E c \in BackupCallers : RestoreLatestCheckpoint(c)
    \/ \E c \in BackupCallers : \E task_graph \in SnapshotGraphs :
          CreateSnapshotStamp(c, task_graph)
    \/ \E c \in BackupCallers : UploadToMinio(c)
    \/ \E c \in BackupCallers : UploadFails(c)
    \/ \E c \in BackupCallers : SaveSnapshotMetadata(c)
    \/ \E c \in BackupCallers : SaveSnapshotMetadataFails(c)
    \/ \E c \in BackupCallers : \E delete_ok \in BOOLEAN :
          CleanupOldSnapshots(c, delete_ok)
    \/ \E c \in BackupCallers : Boot(c)
    \/ \E c \in BackupCallers : AutoRestoreAgain(c)
    \/ \E c \in BackupCallers : AutoRestoreSnapshot(c)
    \/ \E c \in BackupCallers : AutoRestoreCheckpoint(c)

SpecBackup == InitBackup /\ [][NextBackup]_vars

\* An operation admitted by a call that saw the breaker HalfOpen is in flight.
ProbeInFlight(c) ==
    calls[c].pc = "operation" /\ calls[c].current_state = "HalfOpen"

\* C14: while the breaker is Open and no more than timeout_duration has
\* passed since opened_at, a call returns ExternalServiceError and does not
\* start the operation, and no step changes the breaker's state.
C14_OpenRejectsWithinTimeout ==
    [][(cb_state.kind = "Open" /\ now - cb_state.opened_at <= TimeoutDuration)
          => /\ cb_state' = cb_state
             /\ \A c \in Callers :
                   (calls[c].pc = "idle" /\ calls'[c] # calls[c])
                      => calls'[c] = CallerIdle("ExternalServiceError")]_vars

\* C14: exactly timeout_duration has passed since the breaker opened, and a
\* call made since it opened has been rejected.
C14_Witness ==
    /\ cb_state.kind = "Open"
    /\ now - cb_state.opened_at = TimeoutDuration
    /\ \E c \in Callers : calls[c] = CallerIdle("ExternalServiceError")

\* C15: at most one operation admitted in HalfOpen (a probe) is in flight.
C15_ExactlyOneProbe ==
    Cardinality({c \in Callers : ProbeInFlight(c)}) <= 1

\* C16: a Closed breaker opens only when the failure that opens it is at
\* least the failure_threshold-th in a row (no success recorded in between).
C16_OpensOnlyAfterConsecutiveFailures ==
    [][(cb_state.kind = "Closed" /\ cb_state'.kind = "Open")
          => consecutive_failures' >= FailureThreshold]_vars

\* C17: when a HalfOpen probe fails, the breaker reopens with opened_at set
\* to the time of that failure.
C17_FailedProbeRestartsTimeout ==
    [][(cb_state.kind = "HalfOpen" /\ cb_state'.kind = "Open")
          => cb_state'.opened_at = now]_vars

\* At its first k invocations the operation fails with a recoverable error
\* and at invocation k + 1 it returns Ok.
FailsThenSucceeds(k) ==
    /\ \A i \in 1..k :
          retry.outcomes[i] # "Ok" /\ IsRecoverable(retry.outcomes[i])
    /\ retry.outcomes[k + 1] = "Ok"

\* max(1, max_attempts)
AtLeastOne(max_attempts) == IF max_attempts < 1 THEN 1 ELSE max_attempts

\* C18: with max_attempts = n, an operation that fails recoverably k < n
\* times and then succeeds makes retry_with_backoff return Ok after exactly
\* k + 1 invocations.
C18_RetriesUntilSuccess ==
    \A k \in 0..MaxRetryAttempts :
       (retry.pc = "done" /\ k < retry.max_attempts /\ FailsThenSucceeds(k))
          => (retry.result = "Ok" /\ retry.invocations = k + 1)

\* C19 as stated: retry_with_backoff terminates, the operation is invoked at
\* most max_attempts times, and should_retry() is false once max_attempts
\* attempts are recorded.
C19_AtMostMaxAttempts ==
    /\ [](retry.pc # "idle" =>
             /\ retry.invocations <= retry.max_attempts
             /\ retry.attempt >= retry.max_attempts => ~ShouldRetry(retry))
    /\ (retry.pc # "idle") ~> (retry.pc = "done")

\* C19 amended: retry_with_backoff terminates, the operation is invoked at
\* most max(1, max_attempts) times (the first invocation is made whatever
\* max_attempts is), and should_retry() is false once max_attempts attempts
\* are recorded.
C19_AtMostMaxAttemptsOrOne ==
    /\ [](retry.pc # "idle" =>
             /\ retry.invocations <= AtLeastOne(retry.max_attempts)
             /\ retry.attempt >= retry.max_attempts => ~ShouldRetry(retry))
    /\ (retry.pc # "idle") ~> (retry.pc = "done")

\* C19: the loop ran until the attempts were used up: max_attempts >= 2
\* invocations, all failed, and the call has returned the error.
C19_Witness ==
    /\ retry.pc = "done"
    /\ retry.max_attempts >= 2
    /\ retry.invocations = retry.max_attempts
    /\ retry.result = "RuntimeError"

CheckpointInFlight(m) ==
    {c \in BackupCallers :
        /\ backup_calls[c].pc \in {"create_checkpoint", "insert_checkpoint"}
        /\ backup_calls[c].task_count = m}

\* How many checkpoints for the count m exist, are being created, or were
\* refused by the database.
CheckpointsFor(m) ==
    Cardinality({i \in 1..Len(checkpoints) : checkpoints[i].task_count = m})
       + Cardinality(CheckpointInFlight(m))
       + (IF m \in refused_checkpoints THEN 1 ELSE 0)

BootStep ==
    \E c \in BackupCallers :
       /\ backup_calls[c].pc = "idle"
       /\ backup_calls'[c].pc = "restore_snapshot"
       /\ backup_calls'[c].op = "boot"

\* C22: within one process, no step of on_task_completed, create_checkpoint,
\* restore_latest_checkpoint or auto_restore_on_boot decreases
\* completed_tasks_count.
C22_CounterNeverDecreases ==
    [][~BootStep => completed_tasks_count' >= completed_tasks_count]_vars

\* The ids of the tasks of the mesh whose status is Completed.
CompletedTasks ==
    {mesh.nodes[i].id : i \in {j \in 1..Len(mesh.nodes) :
                                  mesh.nodes[j].status = "Completed"}}

QuietSinceBoot(c) ==
    \A d \in BackupCallers \ {c} : backup_calls[d] = BackupIdle(NoResult)

\* The payload of the metadata row inserted last.
MostRecentlyPersistedSnapshot ==
    (CHOOSE o \in minio :
        o.key = snapshot_metadata[Len(snapshot_metadata)].minio_key).body

HasLatestTimestamp(row, rows) ==
    /\ \E i \in 1..Len(rows) : rows[i] = row
    /\ \A i \in 1..Len(rows) : rows[i].timestamp <= row.timestamp

Retained(n) == IF n < MaxSnapshots THEN n ELSE MaxSnapshots

\* C25: when no call is in progress, after n successful create_snapshot
\* calls exactly min(n, max_snapshots) snapshots are retained, every
\* retained one is more recent than every dropped one, and of a dropped
\* snapshot neither the payload nor the metadata row is left.
C25_RetentionExact ==
    (\A c \in BackupCallers : backup_calls[c].pc = "idle")
       => /\ Len(snapshot_metadata) = Retained(snapshots_created)
          /\ \A i \in 1..Len(snapshot_metadata) : \A k \in retention_dropped :
                /\ snapshot_metadata[i].timestamp > k
                /\ snapshot_metadata[i].minio_key # k
          /\ \A o \in minio : o.key \notin retention_dropped

\* C26: a metadata row appears only for a payload that is in the bucket,
\* and the step at which create_snapshot fails (its upload or its metadata
\* insert) returns the error and changes neither the metadata table, nor
\* the bucket, nor last_snapshot; the steps of the call before it only add
\* the new payload to the bucket.
C26_FailedSnapshotLeavesOthers ==
    [][/\ \A i \in 1..Len(snapshot_metadata') :
             (\A j \in 1..Len(snapshot_metadata) :
                 snapshot_metadata[j] # snapshot_metadata'[i])
                => \E o \in minio : o.key = snapshot_metadata'[i].minio_key
       /\ \A c \in BackupCallers :
             (/\ backup_calls[c].pc \in {"upload", "save_metadata"}
              /\ backup_calls'[c] # backup_calls[c])
                => /\ minio \subseteq minio'
                   /\ backup_calls'[c].pc = "idle"
                         => /\ backup_calls'[c].result.tag = "Err"
                            /\ snapshot_metadata' = snapshot_metadata
                            /\ minio' = minio
                            /\ last_snapshot' = last_snapshot]_vars

\* C26: a create_snapshot call has failed at its metadata insert (its
\* payload is in the bucket without a row) while an earlier snapshot is
\* persisted.
C26_Witness ==
    /\ \E c \in BackupCallers : backup_calls[c].result.tag = "Err"
    /\ snapshot_metadata # <<>>
    /\ last_snapshot = snapshot_metadata[Len(snapshot_metadata)].timestamp
    /\ \E o \in minio :
          /\ o.key \notin retention_dropped
          /\ o.key > last_snapshot
          /\ \A i \in 1..Len(snapshot_metadata) :
                snapshot_metadata[i].minio_key # o.key
          /\ \A c \in BackupCallers : backup_calls[c].timestamp # o.key

\* C27: at most one create_snapshot is in progress.
C27_OneSnapshotAtATime ==
    Cardinality({c \in BackupCallers :
                    /\ backup_calls[c].op = "create_snapshot"
                    /\ backup_calls[c].pc # "idle"}) <= 1

\* No task of the mesh has status Running.
NoTaskRunning(m) == \A i \in 1..Len(m.nodes) : m.nodes[i].status # "Running"

\* C28: the status is Initializing after new, Running once start returns and
\* Stopped once stop returns; stop sets Shutting first and never returns with
\* the status still Shutting; and when stop returns, with no other call on
\* the orchestrator in progress, no task of the mesh has status Running.
C28_StopLeavesNoTaskRunning ==
    [][/\ (OrchStart => orch_status' = "Running")
       /\ (OrchStopBegin => orch_status' = "Shutting")
       /\ (OrchStopFinish =>
             /\ orch_status = "Shutting"
             /\ orch_status' = "Stopped"
             /\ ((\A c \in Clients : At(c, "idle")) => NoTaskRunning(mesh')))]_vars

\* A task is being executed and its cancel token has not been tripped.
RunningUncancelled ==
    command_loop.pc \in {"mark", "executing"} /\ command_loop.token = "live"

\* C29: a TaskMeshCore::shutdown that returns Ok has created a final
\* checkpoint, and when that checkpoint is created the checkpoint engine has
\* been stopped and every running task has been signalled to cancel.
C29_FinalCheckpointAfterCancelAndStop ==
    [][/\ (core_shutdown' = "Ok" /\ core_shutdown # "Ok"
             => checkpoint_engine'.checkpoints = checkpoint_engine.checkpoints + 1)
       /\ (checkpoint_engine'.checkpoints # checkpoint_engine.checkpoints
             => ~checkpoint_engine.running /\ ~RunningUncancelled)]_vars

\* The dependencies of task that are not registered.
UnregisteredPredecessors(task) == SeqRange(task.dependencies) \ DOMAIN registry.tasks

\* C30: register_task of a task that names a predecessor which is not
\* registered returns TaskNotFound for such an id and leaves the task map,
\* every index and total_tasks as they were.
C30_UnknownPredecessorRejected ==
    \A task \in RegTasks :
       UnregisteredPredecessors(task) # {}
          => /\ RegisterTask(registry, task).registry = registry
             /\ RegisterTask(registry, task).result.tag = "TaskNotFound"
             /\ RegisterTask(registry, task).result.id \in UnregisteredPredecessors(task)

\* register_task returned TaskNotFound for an unregistered id on a registry
\* that holds a task and a reverse dependency entry.
C30_Witness ==
    /\ registry_result.op = "register_task"
    /\ registry_result.tag = "TaskNotFound"
    /\ registry_result.id \notin DOMAIN registry.tasks
    /\ registry.total_tasks >= 1
    /\ registry.reverse_dependency_index # EmptyMap

\* C31: every predecessor id listed by a registered task is the id of a
\* registered task.
C31_PredecessorsRegistered ==
    \A id \in DOMAIN registry.tasks :
       SeqRange(registry.tasks[id].dependencies) \subseteq DOMAIN registry.tasks

\* The ids a task of the set from depends on, directly or through other
\* registered tasks of the task map.
RECURSIVE TransitiveDependencies(_, _, _)
TransitiveDependencies(tasks, from, visited) ==
    LET next == UNION {SeqRange(tasks[x].dependencies) : x \in from \cap DOMAIN tasks}
    IN IF next \subseteq visited THEN visited
       ELSE TransitiveDependencies(tasks, next \ visited, visited \cup next)

\* The dependency relation of the task map has a cycle.
HasDependencyCycle(tasks) ==
    \E id \in DOMAIN tasks : id \in TransitiveDependencies(tasks, {id}, {})

\* C32: the dependency relation of the registry is acyclic; a registration
\* (of a task whose dependencies are all registered) is rejected with
\* CircularDependency when it would close a cycle and is accepted when it
\* closes none, re-registration with unchanged dependencies included.
C32_RegistryStaysAcyclic ==
    /\ ~HasDependencyCycle(registry.tasks)
    /\ \A task \in RegTasks :
          UnregisteredPredecessors(task) = {}
             => (RegisterTask(registry, task).result.tag = "CircularDependency"
                    <=> HasDependencyCycle(MapInsert(registry.tasks, task.id, task)))

\* C33: get_ready_tasks(completed) returns exactly the registered tasks that
\* are not in completed and whose dependencies are all in completed.
C33_ReadyTasksExact ==
    \A completed \in SUBSET RegTaskIds :
       GetReadyTasks(registry, completed) =
          {id \in DOMAIN registry.tasks :
              /\ id \notin completed
              /\ SeqRange(registry.tasks[id].dependencies) \subseteq completed}

\* C34: get_next_task never returns a task one of whose predecessors is not
\* Completed: whenever a call takes an item out of schedule_queue, every
\* dependency of the returned task in the dependency graph is Completed in the
\* state store.
C34_NextTaskHasCompletedPredecessors ==
    [][QueueLen(schedule_queue') < QueueLen(schedule_queue)
          => \A edge \in dependency_graph :
                edge[2] = next_task'.item.task_id
                   => task_status[edge[1]] = "Completed"]_vars

C35_WitnessNone ==
    /\ next_task.tag = "None"
    /\ Queued(schedule_queue) # {}

\* C36: restore_checkpoint(id) after create_checkpoint(id) returns Ok and makes
\* the stored task set the one create_checkpoint(id) saw, whatever was stored
\* or removed since; restore_checkpoint of an id never created returns
\* CheckpointNotFound and leaves the tasks and the statuses as they were.
C36_RestoreGivesBackCheckpointedTasks ==
    [][store_call'.op = "restore_checkpoint"
          => LET id == store_call'.checkpoint_id
             IN IF id \in DOMAIN store_checkpoints
                THEN /\ store_call'.tag = "Ok"
                     /\ ListTasks(store_tasks') = store_checkpoints[id].encoded
                ELSE /\ store_call'.tag = "CheckpointNotFound"
                     /\ UNCHANGED <<store_tasks, task_status>>]_vars

\* Whether an ExecuteTask command for the id waits in the command channel.
ExecuteQueued(task_id) ==
    \E i \in DOMAIN command_channel :
       command_channel[i] = ExecutorCommand("ExecuteTask", task_id)

\* C37: executions are serialized per task id: an execute_task call passes
\* its check only for an id that has no ExecuteTask command queued and no
\* entry in running_tasks; a call made while the id is queued or running
\* is rejected.
C37_SecondExecuteRejected ==
    [][\A task_id \in execute_calls' \ execute_calls :
          /\ ~ExecuteQueued(task_id)
          /\ task_id \notin executor_running]_vars

\* C38: when OrchestratorCore::execute_task returns after it marked the task
\* Running (with Ok, with the layer's error or with LayerNotAvailable), the
\* task's status is not Running.
C38_ReturnNeverLeavesRunning ==
    [][\A c \in Clients :
          (/\ clients[c].pc \in {"ex_layer", "ex_run", "ex_enqueue"}
           /\ clients'[c].pc = "idle")
             => MeshGetTask(mesh', clients[c].id).status # "Running"]_vars

\* C39: a task id is in OrchestratorCore's execution queue at most once at any
\* time.
C39_QueuedAtMostOnce ==
    \A i, j \in DOMAIN execution_queue :
       execution_queue[i] = execution_queue[j] => i = j

\* Whether the index holds id under key.
Indexed(index, key, id) == key \in DOMAIN index /\ id \in index[key]

\* C40: the indexes of the registry agree with its task map:
\* reverse_dependency_index holds d -> t exactly when t is registered with d
\* among its dependencies, dependency_index holds exactly the registered
\* tasks' dependency sets, tag_index and priority_index hold a task under
\* exactly its current tags and its current priority.
C40_IndexesAgreeWithTasks ==
    LET tasks == registry.tasks
    IN /\ \A d, t \in RegTaskIds :
             Indexed(registry.reverse_dependency_index, d, t)
                <=> (t \in DOMAIN tasks /\ d \in SeqRange(tasks[t].dependencies))
       /\ DOMAIN registry.dependency_index = DOMAIN tasks
       /\ \A t \in DOMAIN tasks :
             registry.dependency_index[t] = SeqRange(tasks[t].dependencies)
       /\ \A tag \in UNION RegTagSets, t \in RegTaskIds :
             Indexed(registry.tag_index, tag, t)
                <=> (t \in DOMAIN tasks /\ tag \in tasks[t].tags)
       /\ \A t \in RegTaskIds :
             Indexed(registry.priority_index, TaskPriority, t) <=> t \in DOMAIN tasks

====
